---- MODULE Spec2Model ----
(***************************************************************************)
(* Model of aw-gateway-rs: the frame codec, the retry transport and the    *)
(* live-data dispatcher of src/src/gateway.rs, and the polls of            *)
(* src/src/main.rs.                                                        *)
(*                                                                         *)
(*   SpecFrame : build_cmd_packet / generate_checksum / validate_response  *)
(*   SpecSend  : send_cmd and connect_and_send_packet, one step per call   *)
(*   SpecLive  : Sensors::parse_live_data, one loop iteration per step     *)
(*   SpecDecode: one value decoder applied to one slice                    *)
(*   SpecMeta  : SensorMetadata::new applied to one inventory record       *)
(*   SpecClient: SensorGateway::new and the calls made on the client       *)
(*   SpecPoll  : Gateway::update_livedata, one loop iteration per step     *)
(***************************************************************************)
EXTENDS Integers, Sequences, FiniteSets, TLC

VARIABLES
    \* ---- frame codec (SpecFrame)
    f_pc,          \* "input" | "built" | "received" | "validated" ("off": not run)
    cmd,           \* command code of the request (*cmd as u8)
    payload,       \* payload handed to build_cmd_packet
    packet,        \* result of build_cmd_packet: [panic, bytes]
    response,      \* bytes handed to validate_response
    origin,        \* where response comes from: "none" | "echo" | "flip" | "raw"
    flipped,       \* 1-based index of the replaced byte (0: none)
    verdict,       \* result of validate_response
    debug_build,   \* cfg!(debug_assertions): overflow checks are on
    \* ---- retry transport (SpecSend)
    s_pc,          \* position inside send_cmd / connect_and_send_packet
    s_cmd,         \* command of the running send_cmd call
    attempt,       \* loop variable of send_cmd (0-based)
    rx,            \* `response` of send_cmd: bytes of the current attempt
    s_result,      \* what send_cmd returned: [kind, data, attempts]
    open_conns,    \* ids of the TcpStreams that are open
    writes,        \* open conn id -> number of requests written on it
    events,        \* history of the running call: "attempt" / "sleep"
    outcomes,      \* history of the running call: [io, verdict] of each attempt
    calls,         \* number of send_cmd calls started
    \* ---- live-data dispatcher (SpecLive)
    l_pc,          \* "loop" | "done" ("off": not run)
    data,          \* the buffer given to Sensors::parse_live_data
    index,         \* cursor (0-based, as in the source)
    last_index,    \* cursor at the start of the iteration just made (-1: none)
    sensor_data,   \* the local Vec<Vec<SensorData>>
    l_result,      \* the returned Result: [kind, groups, type_id]
    \* ---- one decoder call (SpecDecode)
    d_pc,          \* "input" | "done" ("off": not run)
    d_id,          \* type id whose registry entry is used (-1: the decoder is called directly)
    d_fn,          \* name of the decoder
    d_in,          \* the slice handed to the decoder
    d_out,         \* what the decoder returned: [status, values]
    \* ---- one inventory record (SpecMeta)
    m_pc,          \* "input" | "done" | "fetched" ("off": not run)
    m_type,        \* type_id of the record
    m_batt,        \* battery byte of the record
    m_meta,        \* the SensorMetadata built from it, or the map fetched with it
    \* ---- the gateway client (SpecClient)
    g_pc,          \* position inside SensorGateway::new, then "ready" | "panicked"
    firmware,      \* Option<String> field of the client: [some, val]
    mac_address,   \* Option<String> field of the client: [some, val]
    registry,      \* Sensors.parsers of the client
    g_op,          \* last call made on the client
    g_resp,        \* what send_cmd returned to that call: [kind, data]
    g_out,         \* what that call returned
    new_sent,      \* history: kind of what send_cmd returned to each call of new
    seen,          \* history: addresses in the maps the metadata fetches returned
    \* ---- the polls of one Gateway of main.rs (SpecPoll)
    p_pc,              \* "idle" | "meta" | "live" | "aborted" ("off": not run)
    polls,             \* number of polls that returned
    sensor_config,     \* Gateway.sensor_config: entries [k, name]
    discovered_sensor, \* Gateway.discovered_sensor: the names recorded
    p_meta,            \* entries of `metadata` the loop of update_metadata has not visited
    p_data,            \* readings of `data` the loops of update_livedata have not visited
    vals,              \* `vals` of update_livedata: entries [k, v]
    disc_ok,           \* history: names whose discovery publish succeeded, in order
    p_failed,          \* history: names whose discovery publish failed in this poll
    failed_before,     \* history: names whose discovery publish failed in an earlier poll
    info_pub,          \* history: names whose info message was published in this poll
    data_pub,          \* history: the publish to the data topic of this poll: [tried, ok, keys]
    p_fetch            \* history: what get_live_data returned in this poll: "none" | "Ok" | "Err"

frame_vars == <<f_pc, cmd, payload, packet, response, origin, flipped, verdict, debug_build>>
send_vars == <<s_pc, s_cmd, attempt, rx, s_result, open_conns, writes, events, outcomes, calls>>
live_vars == <<l_pc, data, index, last_index, sensor_data, l_result>>
decode_vars == <<d_pc, d_id, d_fn, d_in, d_out>>
meta_vars == <<m_pc, m_type, m_batt, m_meta>>
client_vars ==
    <<g_pc, firmware, mac_address, registry, g_op, g_resp, g_out, new_sent, seen>>
poll_vars ==
    <<p_pc, polls, sensor_config, discovered_sensor, p_meta, p_data, vals,
      disc_ok, p_failed, failed_before, info_pub, data_pub, p_fetch>>
vars == <<frame_vars, send_vars, live_vars, decode_vars, meta_vars, client_vars, poll_vars>>

(***************************************************************************)
(* Program constants                                                       *)
(***************************************************************************)
U8Max == 255
U8Mod == U8Max + 1

\* const HEADER
HEADER == <<255, 255>>

\* enum GatewayCommands (repr u8)
ReadStationMac == 38
LiveData == 39
ReadSensorIdNew == 60
ReadFirmwareVersion == 80
GatewayCommands == {ReadStationMac, LiveData, ReadSensorIdNew, ReadFirmwareVersion}

\* SensorGateway::new: max_tries: 3
max_tries == 3

(***************************************************************************)
(* Bounds of the model                                                     *)
(***************************************************************************)
\* short payloads: every sequence over PayloadBytes up to this length
MaxShortPayload == 2
\* raw responses: every sequence over ResponseBytes up to this length
MaxRespLen == 5
\* number of polls one behaviour makes
MaxPolls == 2
\* number of send_cmd calls one behaviour makes
MaxCalls == 2
\* live-data buffers: every sequence over LiveBytes up to this length
MaxBuf == 4
\* decoder inputs: every sequence over the sample bytes up to this length
MaxSlice == 3
\* short response bodies: every sequence over {0, 255} up to this length
MaxBody == 2
\* inventory regions: every sequence of RecordSamples up to this length
MaxRecords == 2

(***************************************************************************)
(* Helpers                                                                 *)
(***************************************************************************)
SeqsUpTo(S, n) == UNION {[1..k -> S] : k \in 0..n}

\* &v[a..b] of Rust (0-based, b exclusive) on a TLA+ sequence
Slice(v, a, b) == SubSeq(v, a + 1, b)

\* whether &v[a..b] is inside v (Rust panics otherwise)
SliceOk(v, a, b) == a >= 0 /\ a <= b /\ b <= Len(v)

(***************************************************************************)
(* Frame codec                                                             *)
(***************************************************************************)
\* The loop `checksum = checksum.wrapping_add(byte)` over bytes[lo..hi]
\* (1-based, inclusive). wrapping_add is associative, so the fold is
\* evaluated by halves to keep the evaluation depth logarithmic.
RECURSIVE checksum_loop(_, _, _)
checksum_loop(bytes, lo, hi) ==
    IF lo > hi THEN 0
    ELSE IF lo = hi THEN bytes[lo] % U8Mod
    ELSE LET mid == (lo + hi) \div 2
         IN  (checksum_loop(bytes, lo, mid) + checksum_loop(bytes, mid + 1, hi)) % U8Mod

\* fn generate_checksum(data: &[u8]) -> u8: wrapping_add over the bytes
generate_checksum(bytes) == checksum_loop(bytes, 1, Len(bytes))

\* faulty variant of validate_response: the checksum is not compared
validate_response_skip_checksum(resp, command) ==
    IF Len(resp) >= 3 /\ resp[3] = command THEN "Ok" ELSE "CommandMismatch"

\* faulty variant of validate_response: the checksum is computed before the
\* command byte is looked at
validate_response_checksum_first(resp, command) ==
    IF Len(resp) = 0 THEN "Panic"
    ELSE IF ~SliceOk(resp, 2, Len(resp) - 1) THEN "Panic"
    ELSE IF generate_checksum(Slice(resp, 2, Len(resp) - 1)) # resp[Len(resp)]
         THEN "ChecksumMismatch"
    ELSE IF resp[3] = command THEN "Ok" ELSE "CommandMismatch"

\* faulty variant of validate_response: the two header bytes are compared
\* with HEADER first
validate_response_checks_header(resp, command) ==
    IF Len(resp) >= 2 /\ SubSeq(resp, 1, 2) # HEADER THEN "CommandMismatch"
    ELSE IF Len(resp) >= 3 /\ resp[3] = command
    THEN IF generate_checksum(Slice(resp, 2, Len(resp) - 1)) = resp[Len(resp)]
         THEN "Ok" ELSE "ChecksumMismatch"
    ELSE "CommandMismatch"

\* fn validate_response(response, command) -> Result<(), String>
\* "Panic" stands for an out-of-range slice or an underflow of len() - 1.
validate_response(resp, command) ==
    IF Len(resp) >= 3 /\ resp[3] = command
    THEN IF ~SliceOk(resp, 2, Len(resp) - 1) THEN "Panic"
         ELSE LET checksum == generate_checksum(Slice(resp, 2, Len(resp) - 1))
                  resp_checksum == IF Len(resp) = 0 THEN 0 ELSE resp[Len(resp)]
              IN  IF checksum = resp_checksum THEN "Ok" ELSE "ChecksumMismatch"
    ELSE "CommandMismatch"

\* faulty variant of build_cmd_packet: the size leaves out one byte
build_cmd_packet_size_plus2(c, p, checks) ==
    LET size == (Len(p) % U8Mod) + 2
        body == <<c, size>> \o p
    IN  [panic |-> FALSE, bytes |-> HEADER \o body \o <<generate_checksum(body)>>]

\* faulty variant of build_cmd_packet: the checksum covers the header too
build_cmd_packet_checksum_with_header(c, p, checks) ==
    LET size == (Len(p) % U8Mod) + 3
        body == <<c, size % U8Mod>> \o p
    IN  [panic |-> FALSE,
         bytes |-> HEADER \o body \o <<generate_checksum(HEADER \o body)>>]

\* fn build_cmd_packet(&self, cmd, payload) -> Vec<u8>
\* `payload.len() as u8 + 3`: the cast truncates; the addition panics on
\* overflow when overflow checks are on and wraps otherwise.
build_cmd_packet(c, p, checks) ==
    LET len8 == Len(p) % U8Mod
        sum == len8 + 3
    IN  IF sum > U8Max /\ checks
        THEN [panic |-> TRUE, bytes |-> <<>>]
        ELSE LET size == sum % U8Mod
                 body == <<c, size>> \o p
                 checksum == generate_checksum(body)
             IN  [panic |-> FALSE, bytes |-> HEADER \o body \o <<checksum>>]

(***************************************************************************)
(* Inputs of the frame codec                                               *)
(***************************************************************************)
PayloadBytes == {0, 39, 255}
ShortPayloads == SeqsUpTo(PayloadBytes, MaxShortPayload)

\* long payloads around the one-byte limit of the size field
LongLens == {U8Max - 4, U8Max - 3, U8Max - 2, U8Max, U8Mod}
LongPatterns == {<<0, 0>>, <<7, 3>>}
LongPayloads ==
    {[i \in 1..n |-> (pt[1] * i + pt[2]) % U8Mod] : n \in LongLens, pt \in LongPatterns}
Payloads == ShortPayloads \cup LongPayloads

ResponseBytes == {0, 38, 39, 60, 255}
RawResponses == SeqsUpTo(ResponseBytes, MaxRespLen)

\* values a replaced byte may take: every other value for the shortest
\* frames, a sample for the others
FlipDeltas(p) == IF Len(p) < MaxShortPayload THEN 1..U8Max ELSE {1, 128, U8Max}

\* 1-based positions of the payload bytes and of the checksum byte in a frame:
\* all of them for a short frame, the first, middle and last ones for a long one
FlipPositions(bytes) ==
    IF Len(bytes) <= MaxShortPayload + 6 THEN 5..Len(bytes)
    ELSE {5, 6, (5 + Len(bytes)) \div 2, Len(bytes) - 1, Len(bytes)}

NoPacket == [panic |-> FALSE, bytes |-> <<>>]

(***************************************************************************)
(* Idle values of the parts                                                *)
(***************************************************************************)
NoResult == [kind |-> "none", data |-> <<>>, attempts |-> 0]

FrameIdle ==
    /\ f_pc = "off" /\ cmd = 0 /\ payload = <<>> /\ packet = NoPacket
    /\ response = <<>> /\ origin = "none" /\ flipped = 0 /\ verdict = "none"

SendIdle ==
    /\ s_pc = "off" /\ s_cmd = 0 /\ attempt = 0 /\ rx = <<>> /\ s_result = NoResult
    /\ open_conns = {} /\ writes = <<>> /\ events = <<>> /\ outcomes = <<>>
    /\ calls = 0

NoLiveResult == [kind |-> "none", groups |-> <<>>, type_id |-> 0]

LiveIdle ==
    /\ l_pc = "off" /\ data = <<>> /\ index = 0 /\ last_index = -1
    /\ sensor_data = <<>> /\ l_result = NoLiveResult

NoDecoded == [status |-> "none", values |-> <<>>]

DecodeIdle ==
    /\ d_pc = "off" /\ d_id = -1 /\ d_fn = "none" /\ d_in = <<>> /\ d_out = NoDecoded

NoMeta == [status |-> "none"]

MetaIdle ==
    /\ m_pc = "off" /\ m_type = 0 /\ m_batt = 0 /\ m_meta = NoMeta

None == [some |-> FALSE, val |-> <<>>]
Some(v) == [some |-> TRUE, val |-> v]
NoSent == [kind |-> "none", data |-> <<>>]
Out(kind, val) == [kind |-> kind, val |-> val]
NoOut == Out("none", <<>>)

ClientIdle ==
    /\ g_pc = "off" /\ firmware = None /\ mac_address = None /\ registry = <<>>
    /\ g_op = "none" /\ g_resp = NoSent /\ g_out = NoOut
    /\ new_sent = <<>> /\ seen = {}

NoDataPub == [tried |-> FALSE, ok |-> FALSE, keys |-> {}]
PollIdle ==
    /\ p_pc = "off" /\ polls = 0
    /\ sensor_config = {} /\ discovered_sensor = {}
    /\ p_meta = {} /\ p_data = <<>> /\ vals = {}
    /\ disc_ok = <<>> /\ p_failed = {} /\ failed_before = {} /\ info_pub = {}
    /\ data_pub = NoDataPub /\ p_fetch = "none"

(***************************************************************************)
(* SpecFrame: the codec applied to bounded inputs                          *)
(***************************************************************************)
FrameInit ==
    /\ debug_build \in BOOLEAN
    /\ cmd \in GatewayCommands
    /\ packet = NoPacket /\ flipped = 0 /\ verdict = "none"
    /\ \/ /\ f_pc = "input" /\ payload \in Payloads
          /\ response = <<>> /\ origin = "none"
       \/ /\ f_pc = "received" /\ payload = <<>>
          /\ response \in RawResponses /\ origin = "raw"
    /\ SendIdle /\ LiveIdle /\ DecodeIdle /\ MetaIdle /\ ClientIdle /\ PollIdle

\* the request is built
BuildPacket ==
    /\ f_pc = "input"
    /\ packet' = build_cmd_packet(cmd, payload, debug_build)
    /\ f_pc' = "built"
    /\ UNCHANGED <<cmd, payload, response, origin, flipped, verdict, debug_build>>

\* the built frame comes back unchanged
EchoPacket ==
    /\ f_pc = "built" /\ ~packet.panic
    /\ response' = packet.bytes
    /\ origin' = "echo"
    /\ f_pc' = "received"
    /\ UNCHANGED <<cmd, payload, packet, flipped, verdict, debug_build>>

\* the built frame comes back with one payload or checksum byte replaced
FlipByte ==
    /\ f_pc = "built" /\ ~packet.panic
    /\ \E i \in FlipPositions(packet.bytes), d \in FlipDeltas(payload) :
          /\ response' = [packet.bytes EXCEPT ![i] = (@ + d) % U8Mod]
          /\ flipped' = i
    /\ origin' = "flip"
    /\ f_pc' = "received"
    /\ UNCHANGED <<cmd, payload, packet, verdict, debug_build>>

\* the response is validated against the command
ValidateFrame ==
    /\ f_pc = "received"
    /\ verdict' = validate_response(response, cmd)
    /\ f_pc' = "validated"
    /\ UNCHANGED <<cmd, payload, packet, response, origin, flipped, debug_build>>

FrameNext ==
    \/ BuildPacket /\ UNCHANGED <<send_vars, live_vars, decode_vars, meta_vars, client_vars, poll_vars>>
    \/ EchoPacket /\ UNCHANGED <<send_vars, live_vars, decode_vars, meta_vars, client_vars, poll_vars>>
    \/ FlipByte /\ UNCHANGED <<send_vars, live_vars, decode_vars, meta_vars, client_vars, poll_vars>>
    \/ ValidateFrame /\ UNCHANGED <<send_vars, live_vars, decode_vars, meta_vars, client_vars, poll_vars>>

SpecFrame == FrameInit /\ [][FrameNext]_vars

(***************************************************************************)
(* SpecSend: send_cmd over connect_and_send_packet                         *)
(*                                                                         *)
(* s_pc: "idle"      no call is running                                    *)
(*       "loop"      head of `for attempt in 0..self.max_tries`            *)
(*       "connect"   before TcpStream::connect_timeout                     *)
(*       "timeouts"  before set_read_timeout / set_write_timeout           *)
(*       "write"     before write_all                                      *)
(*       "read"      before read                                           *)
(*       "shutdown"  before shutdown and the return of Ok(vec)             *)
(*       "validate"  before validate_response                              *)
(*       "sleep"     before the `if attempt < self.max_tries - 1`          *)
(*       "returned"  send_cmd has returned s_result                        *)
(***************************************************************************)
\* std::io::ErrorKind of a failed connect or write
ErrorKinds == {"TimedOut", "ConnectionRefused", "ConnectionReset"}

\* a well-formed frame of the device for command c
DeviceFrame(c) == build_cmd_packet(c, <<1>>, FALSE).bytes

\* what one read of the socket may deliver for command c: nothing, a good
\* frame, a frame with a wrong checksum, a frame of another command, a
\* truncated frame
ResponsesFor(c) ==
    { <<>>,
      DeviceFrame(c),
      [DeviceFrame(c) EXCEPT ![Len(DeviceFrame(c))] = (@ + 1) % U8Mod],
      DeviceFrame((c + 1) % U8Mod),
      SubSeq(DeviceFrame(c), 1, 2) }

\* the TcpStream `s` the running attempt holds
CurrentConn == CHOOSE c \in open_conns : TRUE

\* id of a TcpStream that is not open
FreshConn == CHOOSE n \in 1..(Cardinality(open_conns) + 1) : n \notin open_conns

\* faulty variant of DropStream: the socket stays open
LeakStream == UNCHANGED <<open_conns, writes>>

\* `s` goes out of scope: the socket is closed
DropStream ==
    /\ open_conns' = open_conns \ {CurrentConn}
    /\ writes' = [c \in open_conns \ {CurrentConn} |-> writes[c]]

\* the verdict of the last attempt is recorded
SetVerdict(v) == [outcomes EXCEPT ![Len(outcomes)].verdict = v]

SendInit ==
    /\ debug_build \in BOOLEAN
    /\ s_pc = "idle" /\ s_cmd = 0 /\ attempt = 0 /\ rx = <<>> /\ s_result = NoResult
    /\ open_conns = {} /\ writes = <<>> /\ events = <<>> /\ outcomes = <<>>
    /\ calls = 0
    /\ FrameIdle /\ LiveIdle /\ DecodeIdle /\ MetaIdle /\ ClientIdle /\ PollIdle

\* a caller (update_sensor_metadata, get_live_data, get_firmware_version,
\* get_station_mac) calls send_cmd with an empty payload
Call ==
    /\ s_pc = "idle" /\ calls < MaxCalls
    /\ \E c \in GatewayCommands : s_cmd' = c
    /\ calls' = calls + 1
    /\ attempt' = 0 /\ rx' = <<>> /\ s_result' = NoResult
    /\ events' = <<>> /\ outcomes' = <<>>
    /\ s_pc' = "loop"
    /\ UNCHANGED <<open_conns, writes>>

\* the loop has another attempt to make: the packet is built
BeginAttempt ==
    /\ s_pc = "loop" /\ attempt < max_tries
    /\ ~build_cmd_packet(s_cmd, <<>>, debug_build).panic
    /\ events' = Append(events, "attempt")
    /\ s_pc' = "connect"
    /\ UNCHANGED <<s_cmd, attempt, rx, s_result, open_conns, writes, outcomes, calls>>

\* the loop is over: Err("Failed to obtain response ... after N attempts")
Exhausted ==
    /\ s_pc = "loop" /\ attempt >= max_tries
    /\ s_result' = [kind |-> "Exhausted", data |-> <<>>, attempts |-> max_tries]
    /\ s_pc' = "returned"
    /\ UNCHANGED <<s_cmd, attempt, rx, open_conns, writes, events, outcomes, calls>>

ConnectOk ==
    /\ s_pc = "connect"
    /\ open_conns' = open_conns \cup {FreshConn}
    /\ writes' = [c \in open_conns \cup {FreshConn} |->
                     IF c \in open_conns THEN writes[c] ELSE 0]
    /\ s_pc' = "timeouts"
    /\ UNCHANGED <<s_cmd, attempt, rx, s_result, events, outcomes, calls>>

\* connect_timeout fails: `?` returns the error, both Err arms of send_cmd
\* log it and `continue`
ConnectFail ==
    /\ s_pc = "connect"
    /\ \E k \in ErrorKinds :
          outcomes' = Append(outcomes, [io |-> "connect", kind |-> k, verdict |-> "none"])
    /\ attempt' = attempt + 1
    /\ s_pc' = "loop"
    /\ UNCHANGED <<s_cmd, rx, s_result, open_conns, writes, events, calls>>

TimeoutsOk ==
    /\ s_pc = "timeouts"
    /\ s_pc' = "write"
    /\ UNCHANGED <<s_cmd, attempt, rx, s_result, open_conns, writes, events, outcomes, calls>>

\* set_read_timeout / set_write_timeout fails: `?` returns, `s` is dropped
TimeoutsFail ==
    /\ s_pc = "timeouts"
    /\ DropStream
    /\ outcomes' = Append(outcomes, [io |-> "timeouts", kind |-> "Other", verdict |-> "none"])
    /\ attempt' = attempt + 1
    /\ s_pc' = "loop"
    /\ UNCHANGED <<s_cmd, rx, s_result, events, calls>>

WriteOk ==
    /\ s_pc = "write"
    /\ writes' = [writes EXCEPT ![CurrentConn] = @ + 1]
    /\ s_pc' = "read"
    /\ UNCHANGED <<s_cmd, attempt, rx, s_result, open_conns, events, outcomes, calls>>

\* write_all fails: `?` returns, `s` is dropped, send_cmd continues
WriteFail ==
    /\ s_pc = "write"
    /\ DropStream
    /\ \E k \in ErrorKinds :
          outcomes' = Append(outcomes, [io |-> "write", kind |-> k, verdict |-> "none"])
    /\ attempt' = attempt + 1
    /\ s_pc' = "loop"
    /\ UNCHANGED <<s_cmd, rx, s_result, events, calls>>

\* read returns Ok(n): vec holds the n bytes
ReadOk ==
    /\ s_pc = "read"
    /\ \E bytes \in ResponsesFor(s_cmd) : rx' = bytes
    /\ outcomes' = Append(outcomes, [io |-> "received", kind |-> "none", verdict |-> "none"])
    /\ s_pc' = "shutdown"
    /\ UNCHANGED <<s_cmd, attempt, s_result, open_conns, writes, events, calls>>

\* faulty variant of ReadErr: the error of read is returned with `?`, as the
\* error of write_all is
ReadErrReturned ==
    /\ s_pc = "read"
    /\ DropStream
    /\ \E k \in ErrorKinds :
          outcomes' = Append(outcomes, [io |-> "read", kind |-> k, verdict |-> "none"])
    /\ attempt' = attempt + 1
    /\ s_pc' = "loop"
    /\ UNCHANGED <<s_cmd, rx, s_result, events, calls>>

\* read returns Err: logged, vec stays empty
ReadErr ==
    /\ s_pc = "read"
    /\ rx' = <<>>
    /\ \E k \in ErrorKinds :
          outcomes' = Append(outcomes, [io |-> "read", kind |-> k, verdict |-> "none"])
    /\ s_pc' = "shutdown"
    /\ UNCHANGED <<s_cmd, attempt, s_result, open_conns, writes, events, calls>>

\* shutdown(Both) (its error is only logged), then Ok(vec) and `s` is dropped
ShutdownAndReturn ==
    /\ s_pc = "shutdown"
    /\ DropStream
    /\ s_pc' = "validate"
    /\ UNCHANGED <<s_cmd, attempt, rx, s_result, events, outcomes, calls>>

\* faulty variant of ValidateOk: any non-empty response is returned
ValidateOkUnchecked ==
    /\ s_pc = "validate"
    /\ rx # <<>>
    /\ outcomes' = SetVerdict(validate_response(rx, s_cmd))
    /\ s_result' = [kind |-> "Ok", data |-> rx, attempts |-> attempt + 1]
    /\ s_pc' = "returned"
    /\ UNCHANGED <<s_cmd, attempt, rx, open_conns, writes, events, calls>>

\* validate_response accepts: return Ok(response)
ValidateOk ==
    /\ s_pc = "validate"
    /\ validate_response(rx, s_cmd) = "Ok"
    /\ outcomes' = SetVerdict("Ok")
    /\ s_result' = [kind |-> "Ok", data |-> rx, attempts |-> attempt + 1]
    /\ s_pc' = "returned"
    /\ UNCHANGED <<s_cmd, attempt, rx, open_conns, writes, events, calls>>

\* validate_response rejects: logged, on to the sleep
ValidateErr ==
    /\ s_pc = "validate"
    /\ validate_response(rx, s_cmd) # "Ok"
    /\ outcomes' = SetVerdict(validate_response(rx, s_cmd))
    /\ s_pc' = "sleep"
    /\ UNCHANGED <<s_cmd, attempt, rx, s_result, open_conns, writes, events, calls>>

\* faulty variant of SleepBetween: the sleep is not guarded
SleepAlways ==
    /\ s_pc = "sleep"
    /\ events' = Append(events, "sleep")
    /\ attempt' = attempt + 1
    /\ s_pc' = "loop"
    /\ UNCHANGED <<s_cmd, rx, s_result, open_conns, writes, outcomes, calls>>

\* `if attempt < self.max_tries - 1 { sleep(self.retry_wait) }`, next iteration
SleepBetween ==
    /\ s_pc = "sleep"
    /\ events' = IF attempt < max_tries - 1 THEN Append(events, "sleep") ELSE events
    /\ attempt' = attempt + 1
    /\ s_pc' = "loop"
    /\ UNCHANGED <<s_cmd, rx, s_result, open_conns, writes, outcomes, calls>>

\* the caller takes the result
Finish ==
    /\ s_pc = "returned"
    /\ s_pc' = "idle"
    /\ UNCHANGED <<s_cmd, attempt, rx, s_result, open_conns, writes, events, outcomes, calls>>

SendNext ==
    \/ Call /\ UNCHANGED <<frame_vars, live_vars, decode_vars, meta_vars, client_vars, poll_vars>>
    \/ BeginAttempt /\ UNCHANGED <<frame_vars, live_vars, decode_vars, meta_vars, client_vars, poll_vars>>
    \/ Exhausted /\ UNCHANGED <<frame_vars, live_vars, decode_vars, meta_vars, client_vars, poll_vars>>
    \/ ConnectOk /\ UNCHANGED <<frame_vars, live_vars, decode_vars, meta_vars, client_vars, poll_vars>>
    \/ ConnectFail /\ UNCHANGED <<frame_vars, live_vars, decode_vars, meta_vars, client_vars, poll_vars>>
    \/ TimeoutsOk /\ UNCHANGED <<frame_vars, live_vars, decode_vars, meta_vars, client_vars, poll_vars>>
    \/ TimeoutsFail /\ UNCHANGED <<frame_vars, live_vars, decode_vars, meta_vars, client_vars, poll_vars>>
    \/ WriteOk /\ UNCHANGED <<frame_vars, live_vars, decode_vars, meta_vars, client_vars, poll_vars>>
    \/ WriteFail /\ UNCHANGED <<frame_vars, live_vars, decode_vars, meta_vars, client_vars, poll_vars>>
    \/ ReadOk /\ UNCHANGED <<frame_vars, live_vars, decode_vars, meta_vars, client_vars, poll_vars>>
    \/ ReadErr /\ UNCHANGED <<frame_vars, live_vars, decode_vars, meta_vars, client_vars, poll_vars>>
    \/ ShutdownAndReturn /\ UNCHANGED <<frame_vars, live_vars, decode_vars, meta_vars, client_vars, poll_vars>>
    \/ ValidateOk /\ UNCHANGED <<frame_vars, live_vars, decode_vars, meta_vars, client_vars, poll_vars>>
    \/ ValidateErr /\ UNCHANGED <<frame_vars, live_vars, decode_vars, meta_vars, client_vars, poll_vars>>
    \/ SleepBetween /\ UNCHANGED <<frame_vars, live_vars, decode_vars, meta_vars, client_vars, poll_vars>>
    \/ Finish /\ UNCHANGED <<frame_vars, live_vars, decode_vars, meta_vars, client_vars, poll_vars>>

SpecSend == SendInit /\ [][SendNext]_vars

(***************************************************************************)
(* Value decoders (impl SensorValue)                                       *)
(*                                                                         *)
(* A SensorValue is [kind, hi, num, den, raw]: the f64 or integer          *)
(* (hi * 65536 + num) / den, or the raw bytes of a DateTime. hi is 0 for   *)
(* the 8- and 16-bit kinds; a 32-bit value is kept as its two 16-bit       *)
(* halves because the model checker's integers are 32 bits wide.           *)
(* A decoder returns [status, values] with status "Ok", "Err" (the         *)
(* Err(String)) or "Panic".                                                *)
(***************************************************************************)
Val(kind, num, den) == [kind |-> kind, hi |-> 0, num |-> num, den |-> den, raw |-> <<>>]
Val32(kind, w, den) == [kind |-> kind, hi |-> w[1], num |-> w[2], den |-> den, raw |-> <<>>]
RawVal(kind, bytes) == [kind |-> kind, hi |-> 0, num |-> 0, den |-> 1, raw |-> bytes]
DecOk(values) == [status |-> "Ok", values |-> values]
DecErr == [status |-> "Err", values |-> <<>>]
DecPanic == [status |-> "Panic", values |-> <<>>]

\* faulty variant of I16Last: the two bytes are read as an unsigned number
I16LastUnsigned(d) == d[Len(d) - 1] * U8Mod + d[Len(d)]

\* i16::from_be_bytes of the last two bytes of d
I16Last(d) ==
    LET u == d[Len(d) - 1] * U8Mod + d[Len(d)]
    IN  IF u >= 32768 THEN u - 65536 ELSE u

\* u32::from_be_bytes / i32::from_be_bytes of four bytes, as <<high half, low half>>
U32(d) == <<d[1] * U8Mod + d[2], d[3] * U8Mod + d[4]>>
I32(d) == <<IF U32(d)[1] >= 32768 THEN U32(d)[1] - 65536 ELSE U32(d)[1], U32(d)[2]>>

\* `as i8` of a byte
I8(b) == IF b >= 128 THEN b - U8Mod ELSE b

parse_temp(d) == IF Len(d) # 2 THEN DecErr ELSE DecOk(<<Val("Temp", I16Last(d), 10)>>)
parse_humidity(d) == IF Len(d) # 1 THEN DecErr ELSE DecOk(<<Val("Humidity", d[1], 1)>>)
parse_moist(d) == IF Len(d) # 1 THEN DecErr ELSE DecOk(<<Val("Moist", d[1], 1)>>)
parse_pressure(d) == IF Len(d) < 2 THEN DecErr ELSE DecOk(<<Val("Pressure", I16Last(d), 10)>>)
parse_speed(d) == IF Len(d) < 2 THEN DecErr ELSE DecOk(<<Val("Speed", I16Last(d), 10)>>)
parse_rain(d) == IF Len(d) < 2 THEN DecErr ELSE DecOk(<<Val("Rain", I16Last(d), 10)>>)
parse_rainlarge(d) == IF Len(d) # 4 THEN DecErr ELSE DecOk(<<Val32("RainLarge", U32(d), 10)>>)
parse_distance(d) == IF Len(d) # 1 THEN DecErr ELSE DecOk(<<Val("Distance", I8(d[1]), 1)>>)
parse_direction(d) == IF Len(d) # 2 THEN DecErr ELSE DecOk(<<Val("Direction", I16Last(d), 1)>>)
parse_count(d) == IF Len(d) # 4 THEN DecErr ELSE DecOk(<<Val32("Count", U32(d), 1)>>)
parse_gain(d) == IF Len(d) # 4 THEN DecErr ELSE DecOk(<<Val32("Gain", U32(d), 100)>>)
parse_light(d) == IF Len(d) # 4 THEN DecErr ELSE DecOk(<<Val32("Light", U32(d), 100)>>)
parse_uv(d) == IF Len(d) < 2 THEN DecErr ELSE DecOk(<<Val("Uv", I16Last(d), 10)>>)
parse_uv_index(d) == IF Len(d) # 1 THEN DecErr ELSE DecOk(<<Val("UvIndex", d[1], 1)>>)
parse_pm10(d) == IF Len(d) < 2 THEN DecErr ELSE DecOk(<<Val("Pm10", I16Last(d), 10)>>)
parse_pm25(d) == IF Len(d) < 2 THEN DecErr ELSE DecOk(<<Val("Pm25", I16Last(d), 10)>>)
parse_leak(d) == IF Len(d) # 1 THEN DecErr ELSE DecOk(<<Val("Leak", d[1], 1)>>)
parse_co2(d) == IF Len(d) # 2 THEN DecErr ELSE DecOk(<<Val("Co2", I16Last(d), 1)>>)
parse_utc(d) == IF Len(d) # 4 THEN DecErr ELSE DecOk(<<Val32("UtcTime", I32(d), 1)>>)
parse_datetime(d) == IF Len(d) # 6 THEN DecErr ELSE DecOk(<<RawVal("DateTime", d)>>)
skip_data(d) == DecOk(<<Val("Empty", 0, 1)>>)

\* parse_wh45: the length test, then eight sub-decoders on fixed slices, each
\* `.unwrap()[0]`: a slice out of range or an Err of a sub-decoder panics
parse_wh45(d) ==
    IF Len(d) # 6 THEN DecErr
    ELSE IF ~SliceOk(d, 0, 2) \/ ~(2 < Len(d)) \/ ~SliceOk(d, 3, 5) \/ ~SliceOk(d, 5, 7)
            \/ ~SliceOk(d, 7, 9) \/ ~SliceOk(d, 9, 11) \/ ~SliceOk(d, 11, 13)
            \/ ~SliceOk(d, 13, 15)
         THEN DecPanic
    ELSE LET subs == << parse_temp(Slice(d, 0, 2)),
                        parse_humidity(<<d[3]>>),
                        parse_pm10(Slice(d, 3, 5)),
                        parse_humidity(Slice(d, 5, 7)),
                        parse_pm25(Slice(d, 7, 9)),
                        parse_pm25(Slice(d, 9, 11)),
                        parse_co2(Slice(d, 11, 13)),
                        parse_co2(Slice(d, 13, 15)) >>
         IN  IF \E i \in 1..8 : subs[i].status # "Ok" THEN DecPanic
             ELSE DecOk([i \in 1..8 |-> subs[i].values[1]])

\* the call (parser.parse_fn)(&field_data)
Decode(parse_fn, d) ==
    CASE parse_fn = "parse_temp" -> parse_temp(d)
      [] parse_fn = "parse_humidity" -> parse_humidity(d)
      [] parse_fn = "parse_moist" -> parse_moist(d)
      [] parse_fn = "parse_pressure" -> parse_pressure(d)
      [] parse_fn = "parse_speed" -> parse_speed(d)
      [] parse_fn = "parse_rain" -> parse_rain(d)
      [] parse_fn = "parse_rainlarge" -> parse_rainlarge(d)
      [] parse_fn = "parse_distance" -> parse_distance(d)
      [] parse_fn = "parse_direction" -> parse_direction(d)
      [] parse_fn = "parse_count" -> parse_count(d)
      [] parse_fn = "parse_gain" -> parse_gain(d)
      [] parse_fn = "parse_light" -> parse_light(d)
      [] parse_fn = "parse_uv" -> parse_uv(d)
      [] parse_fn = "parse_uv_index" -> parse_uv_index(d)
      [] parse_fn = "parse_pm10" -> parse_pm10(d)
      [] parse_fn = "parse_pm25" -> parse_pm25(d)
      [] parse_fn = "parse_leak" -> parse_leak(d)
      [] parse_fn = "parse_co2" -> parse_co2(d)
      [] parse_fn = "parse_utc" -> parse_utc(d)
      [] parse_fn = "parse_datetime" -> parse_datetime(d)
      [] parse_fn = "parse_wh45" -> parse_wh45(d)
      [] parse_fn = "skip_data" -> skip_data(d)

(***************************************************************************)
(* Sensor registry (Sensors::init_parsers)                                 *)
(***************************************************************************)
ParseInfo(parse_fn, field_names, size) ==
    [parse_fn |-> parse_fn, field_names |-> field_names, size |-> size]

parsers ==
    (1 :> ParseInfo("parse_temp", <<"indoor_temp">>, 2)) @@
    (2 :> ParseInfo("parse_temp", <<"outdoor_temp">>, 2)) @@
    (4 :> ParseInfo("parse_temp", <<"windchill">>, 2)) @@
    (5 :> ParseInfo("parse_temp", <<"heat_index">>, 2)) @@
    (6 :> ParseInfo("parse_humidity", <<"in_humidity">>, 1)) @@
    (7 :> ParseInfo("parse_humidity", <<"out_humidity">>, 1)) @@
    (8 :> ParseInfo("parse_pressure", <<"abs_barometer">>, 2)) @@
    (9 :> ParseInfo("parse_pressure", <<"rel_barometer">>, 2)) @@
    (10 :> ParseInfo("parse_direction", <<"wind_dir">>, 2)) @@
    (11 :> ParseInfo("parse_speed", <<"wind_speed">>, 2)) @@
    (12 :> ParseInfo("parse_speed", <<"gust_speed">>, 2)) @@
    (13 :> ParseInfo("parse_rain", <<"rain_event">>, 2)) @@
    (14 :> ParseInfo("parse_rain", <<"rain_rate">>, 2)) @@
    (15 :> ParseInfo("parse_gain", <<"rain_gain">>, 2)) @@
    (16 :> ParseInfo("parse_rain", <<"rain_day">>, 2)) @@
    (17 :> ParseInfo("parse_rain", <<"rain_week">>, 2)) @@
    (18 :> ParseInfo("parse_rainlarge", <<"rain_month">>, 4)) @@
    (19 :> ParseInfo("parse_rainlarge", <<"rain_year">>, 4)) @@
    (20 :> ParseInfo("parse_rainlarge", <<"rain_totals">>, 4)) @@
    (21 :> ParseInfo("parse_light", <<"light">>, 4)) @@
    (22 :> ParseInfo("parse_uv", <<"uv">>, 2)) @@
    (23 :> ParseInfo("parse_uv_index", <<"uv_index">>, 1)) @@
    (24 :> ParseInfo("parse_datetime", <<"datetime">>, 6)) @@
    (25 :> ParseInfo("parse_speed", <<"day_maxwind">>, 2)) @@
    (26 :> ParseInfo("parse_temp", <<"temp_1">>, 2)) @@
    (27 :> ParseInfo("parse_temp", <<"temp_2">>, 2)) @@
    (28 :> ParseInfo("parse_temp", <<"temp_3">>, 2)) @@
    (29 :> ParseInfo("parse_temp", <<"temp_4">>, 2)) @@
    (30 :> ParseInfo("parse_temp", <<"temp_5">>, 2)) @@
    (31 :> ParseInfo("parse_temp", <<"temp_6">>, 2)) @@
    (32 :> ParseInfo("parse_temp", <<"temp_7">>, 2)) @@
    (33 :> ParseInfo("parse_temp", <<"temp_8">>, 2)) @@
    (34 :> ParseInfo("parse_temp", <<"humidity_1">>, 1)) @@
    (35 :> ParseInfo("parse_temp", <<"humidity_2">>, 1)) @@
    (36 :> ParseInfo("parse_temp", <<"humidity_3">>, 1)) @@
    (37 :> ParseInfo("parse_temp", <<"humidity_4">>, 1)) @@
    (38 :> ParseInfo("parse_temp", <<"humidity_5">>, 1)) @@
    (39 :> ParseInfo("parse_temp", <<"humidity_6">>, 1)) @@
    (40 :> ParseInfo("parse_temp", <<"humidity_7">>, 1)) @@
    (41 :> ParseInfo("parse_temp", <<"humidity_8">>, 1)) @@
    (42 :> ParseInfo("parse_pm25", <<"pm25_1">>, 2)) @@
    (43 :> ParseInfo("parse_temp", <<"soil_temp_1">>, 2)) @@
    (44 :> ParseInfo("parse_moist", <<"soil_moist_1">>, 1)) @@
    (45 :> ParseInfo("parse_temp", <<"soil_temp_2">>, 2)) @@
    (46 :> ParseInfo("parse_moist", <<"soil_moist_2">>, 1)) @@
    (47 :> ParseInfo("parse_temp", <<"soil_temp_3">>, 2)) @@
    (48 :> ParseInfo("parse_moist", <<"soil_moist_3">>, 1)) @@
    (49 :> ParseInfo("parse_temp", <<"soil_temp_4">>, 2)) @@
    (50 :> ParseInfo("parse_moist", <<"soil_moist_4">>, 1)) @@
    (51 :> ParseInfo("parse_temp", <<"soil_temp_5">>, 2)) @@
    (52 :> ParseInfo("parse_moist", <<"soil_moist_5">>, 1)) @@
    (53 :> ParseInfo("parse_temp", <<"soil_temp_6">>, 2)) @@
    (54 :> ParseInfo("parse_moist", <<"soil_moist_6">>, 1)) @@
    (55 :> ParseInfo("parse_temp", <<"soil_temp_7">>, 2)) @@
    (56 :> ParseInfo("parse_moist", <<"soil_moist_7">>, 1)) @@
    (57 :> ParseInfo("parse_temp", <<"soil_temp_8">>, 2)) @@
    (58 :> ParseInfo("parse_moist", <<"soil_moist_8">>, 1)) @@
    (76 :> ParseInfo("skip_data", <<"">>, 16)) @@
    (77 :> ParseInfo("parse_pm25", <<"pm25_1_avg_24h">>, 2)) @@
    (78 :> ParseInfo("parse_pm25", <<"pm25_2_avg_24h">>, 2)) @@
    (79 :> ParseInfo("parse_pm25", <<"pm25_3_avg_24h">>, 2)) @@
    (80 :> ParseInfo("parse_pm25", <<"pm25_4_avg_24h">>, 2)) @@
    (81 :> ParseInfo("parse_pm25", <<"pm25_2">>, 2)) @@
    (82 :> ParseInfo("parse_pm25", <<"pm25_3">>, 2)) @@
    (83 :> ParseInfo("parse_pm25", <<"pm25_4">>, 2)) @@
    (88 :> ParseInfo("parse_leak", <<"leak1">>, 1)) @@
    (89 :> ParseInfo("parse_leak", <<"leak2">>, 1)) @@
    (90 :> ParseInfo("parse_leak", <<"leak3">>, 1)) @@
    (91 :> ParseInfo("parse_leak", <<"leak4">>, 1)) @@
    (96 :> ParseInfo("parse_distance", <<"lightning_distance">>, 1)) @@
    (97 :> ParseInfo("parse_utc", <<"lightning_datetime">>, 4)) @@
    (98 :> ParseInfo("parse_count", <<"lightning_count">>, 4)) @@
    (112 :> ParseInfo("parse_wh45", <<"temp_wh45", "humid_wh45", "pm10_wh45", "pm10_avg_24h_wh45", "pm25_wh45", "pm25_avg_24h_wh45", "co2_wh45", "co2_avg_24h_wh45">>, 16))

(***************************************************************************)
(* SpecLive: Sensors::parse_live_data, one loop iteration per step         *)
(***************************************************************************)
LiveBytes == {0, 2, 6, 15, 34, 200}
ShortBuffers == SeqsUpTo(LiveBytes, MaxBuf)

Fill(n, b) == [i \in 1..n |-> b]

\* buffers holding the long records of the registry
LongBuffers ==
    { <<112>> \o Fill(16, 1) \o <<2, 0, 200>>,
      <<76>> \o Fill(16, 0) \o <<6, 50>>,
      <<24, 23, 11, 6, 10, 46, 0>> \o <<7, 99>>,
      <<2, 255, 255, 112>> \o Fill(15, 1),
      <<18, 0, 0, 1, 0, 96, 200, 3>>,
      <<15, 0, 100, 8, 39, 16>> }

Buffers == ShortBuffers \cup LongBuffers

\* the reading group of one record: values zipped with field_names by index
ZipFields(values, field_names) ==
    [i \in 1..Len(values) |-> [field |-> field_names[i], value |-> values[i]]]

LiveInit ==
    /\ debug_build \in BOOLEAN
    /\ l_pc = "loop"
    /\ data \in Buffers
    /\ index = 0 /\ last_index = -1
    /\ sensor_data = <<>> /\ l_result = NoLiveResult
    /\ FrameIdle /\ SendIdle /\ DecodeIdle /\ MetaIdle /\ ClientIdle /\ PollIdle

\* faulty variant of LiveRecord: a decoder error ends the parse
LiveRecordStopOnDecodeError ==
    /\ l_pc = "loop" /\ index < Len(data)
    /\ data[index + 1] \in DOMAIN parsers
    /\ LET parser == parsers[data[index + 1]]
           fits == index + 1 + parser.size <= Len(data)
           parsed == Decode(parser.parse_fn, Slice(data, index + 1, index + 1 + parser.size))
       IN  IF fits /\ parsed.status # "Ok"
           THEN /\ l_result' = [kind |-> "Err", groups |-> <<>>, type_id |-> data[index + 1]]
                /\ l_pc' = "done"
                /\ UNCHANGED <<sensor_data, index, last_index>>
           ELSE /\ sensor_data' = IF fits
                                  THEN Append(sensor_data, ZipFields(parsed.values, parser.field_names))
                                  ELSE sensor_data
                /\ index' = index + parser.size + 1
                /\ last_index' = index
                /\ UNCHANGED <<l_pc, l_result>>
    /\ UNCHANGED data

\* faulty variant of LiveRecord: a record whose declared size runs past the
\* end of the buffer ends the parse with an error
LiveRecordErrOnTruncation ==
    /\ l_pc = "loop" /\ index < Len(data)
    /\ data[index + 1] \in DOMAIN parsers
    /\ LET parser == parsers[data[index + 1]]
           fits == index + 1 + parser.size <= Len(data)
           parsed == Decode(parser.parse_fn, Slice(data, index + 1, index + 1 + parser.size))
       IN  IF ~fits
           THEN /\ l_result' = [kind |-> "Err", groups |-> <<>>, type_id |-> data[index + 1]]
                /\ l_pc' = "done"
                /\ UNCHANGED <<sensor_data, index, last_index>>
           ELSE /\ sensor_data' = IF parsed.status = "Ok"
                                  THEN Append(sensor_data, ZipFields(parsed.values, parser.field_names))
                                  ELSE sensor_data
                /\ index' = index + parser.size + 1
                /\ last_index' = index
                /\ UNCHANGED <<l_pc, l_result>>
    /\ UNCHANGED data

\* an iteration on a registered type id
LiveRecord ==
    /\ l_pc = "loop" /\ index < Len(data)
    /\ data[index + 1] \in DOMAIN parsers
    /\ LET parser == parsers[data[index + 1]]
           fits == index + 1 + parser.size <= Len(data)
           parsed == Decode(parser.parse_fn, Slice(data, index + 1, index + 1 + parser.size))
       IN  IF fits /\ (parsed.status = "Panic"
                       \/ Len(parsed.values) > Len(parser.field_names))
           THEN \* an unwrap or an index out of range inside the iteration
                /\ l_result' = [kind |-> "Panic", groups |-> <<>>, type_id |-> data[index + 1]]
                /\ l_pc' = "done"
                /\ UNCHANGED <<sensor_data, index, last_index>>
           ELSE /\ sensor_data' = IF fits /\ parsed.status = "Ok"
                                  THEN Append(sensor_data, ZipFields(parsed.values, parser.field_names))
                                  ELSE sensor_data
                /\ index' = index + parser.size + 1
                /\ last_index' = index
                /\ UNCHANGED <<l_pc, l_result>>
    /\ UNCHANGED data

\* faulty variant of LiveUnknown: the byte is skipped and the parse goes on
LiveUnknownSkips ==
    /\ l_pc = "loop" /\ index < Len(data)
    /\ data[index + 1] \notin DOMAIN parsers
    /\ index' = index + 1
    /\ last_index' = index
    /\ UNCHANGED <<l_pc, data, sensor_data, l_result>>

\* an iteration on a type id without parser: return Err
LiveUnknown ==
    /\ l_pc = "loop" /\ index < Len(data)
    /\ data[index + 1] \notin DOMAIN parsers
    /\ l_result' = [kind |-> "Err", groups |-> <<>>, type_id |-> data[index + 1]]
    /\ l_pc' = "done"
    /\ UNCHANGED <<data, index, last_index, sensor_data>>

\* the loop is over: Ok(sensor_data)
LiveReturn ==
    /\ l_pc = "loop" /\ index >= Len(data)
    /\ l_result' = [kind |-> "Ok", groups |-> sensor_data, type_id |-> 0]
    /\ l_pc' = "done"
    /\ UNCHANGED <<data, index, last_index, sensor_data>>

LiveNext ==
    \/ LiveRecord /\ UNCHANGED <<frame_vars, send_vars, decode_vars, meta_vars, client_vars, poll_vars>>
    \/ LiveUnknown /\ UNCHANGED <<frame_vars, send_vars, decode_vars, meta_vars, client_vars, poll_vars>>
    \/ LiveReturn /\ UNCHANGED <<frame_vars, send_vars, decode_vars, meta_vars, client_vars, poll_vars>>

SpecLive == LiveInit /\ [][LiveNext]_vars

(***************************************************************************)
(* Claims about send_cmd (checked under SpecSend)                          *)
(***************************************************************************)
NumAttempts == Cardinality({i \in 1..Len(events) : events[i] = "attempt"})
NumSleeps == Cardinality({i \in 1..Len(events) : events[i] = "sleep"})

\* every attempt of the running call failed with a timeout
AllTimeouts ==
    /\ Len(outcomes) > 0
    /\ \A i \in 1..Len(outcomes) : outcomes[i].kind = "TimedOut"

\* attempt, sleep, attempt, ..., attempt: max_tries attempts, a sleep between
\* every two, none after the last
AlternatingEvents ==
    [i \in 1..(2 * max_tries - 1) |-> IF i % 2 = 1 THEN "attempt" ELSE "sleep"]

\* C1: when every attempt fails with a timeout, send_cmd makes exactly
\* max_tries attempts, returns the exhausted error, sleeps retry_wait once
\* between every two consecutive attempts and not after the last one.
C1_TimeoutsSleepBetweenAttempts ==
    (s_pc = "returned" /\ AllTimeouts) =>
        /\ s_result.kind = "Exhausted"
        /\ s_result.attempts = max_tries
        /\ NumAttempts = max_tries
        /\ events = AlternatingEvents

\* C2: send_cmd makes at most max_tries attempts; it returns Ok only with the
\* response of an attempt that passed validate_response for the command, at
\* the first such attempt; when no attempt validates it returns the exhausted
\* error after exactly max_tries attempts, with no response.
C2_OkOnlyValidatedElseExhausted ==
    /\ NumAttempts <= max_tries
    /\ Len(outcomes) <= NumAttempts
    /\ s_pc = "returned" =>
          /\ Len(outcomes) = NumAttempts
          /\ \A i \in 1..(Len(outcomes) - 1) : outcomes[i].verdict # "Ok"
          /\ \/ /\ s_result.kind = "Ok"
                /\ validate_response(s_result.data, s_cmd) = "Ok"
                /\ s_result.data = rx
                /\ outcomes[Len(outcomes)].io = "received"
                /\ outcomes[Len(outcomes)].verdict = "Ok"
                /\ s_result.attempts = NumAttempts
             \/ /\ s_result.kind = "Exhausted"
                /\ s_result.data = <<>>
                /\ s_result.attempts = max_tries
                /\ NumAttempts = max_tries
                /\ outcomes[Len(outcomes)].verdict # "Ok"

\* C2 witness: a call that failed once and then returned a validated response
C2_Witness ==
    /\ s_pc = "returned" /\ s_result.kind = "Ok"
    /\ NumAttempts = 2 /\ outcomes[1].verdict = "ChecksumMismatch"

\* C3: whatever the outcomes of the attempts, send_cmd does not sleep after
\* its max_tries-th attempt nor after a successful attempt, and it sleeps at
\* most max_tries - 1 times in one call.
C3_NoSleepAfterLastAttempt ==
    /\ NumSleeps <= max_tries - 1
    /\ (NumAttempts = max_tries) => events[Len(events)] = "attempt"
    /\ (s_pc \in {"returned", "idle"} /\ events # <<>>) => events[Len(events)] = "attempt"
    /\ \A i \in 1..Len(events) :
          events[i] = "sleep" => (i > 1 /\ events[i - 1] = "attempt")

\* C3 witness: three attempts rejected by the validation, two sleeps, the
\* exhausted error
C3_Witness ==
    /\ s_pc = "returned" /\ s_result.kind = "Exhausted"
    /\ NumSleeps = max_tries - 1
    /\ \A i \in 1..Len(outcomes) : outcomes[i].io = "received"

\* C4: the connection of an attempt is closed before the next attempt or the
\* next command opens one, whatever the outcome of the attempt; at most one
\* connection is open at any time and no connection carries more than one
\* request.
C4_OneConnectionPerAttempt ==
    /\ Cardinality(open_conns) <= 1
    /\ s_pc \in {"idle", "loop", "connect", "validate", "sleep", "returned"}
          => open_conns = {}
    /\ \A c \in open_conns : writes[c] <= 1

\* C4 witness: the second command of a run has a connection open for its
\* second attempt, after an attempt whose write failed
C4_Witness ==
    /\ calls = 2 /\ s_pc = "read" /\ attempt = 1
    /\ outcomes[1].io = "write"
    /\ Cardinality(open_conns) = 1 /\ writes[CurrentConn] = 1

(***************************************************************************)
(* Claims about the frame codec (checked under SpecFrame)                  *)
(***************************************************************************)
\* the longest payload the one-byte size field can describe
MaxValidPayload == U8Max - 3

\* the packet has been built from (cmd, payload)
Built == f_pc = "built" \/ origin \in {"echo", "flip"}

\* plain sum of the bytes of a sequence, by halves
RECURSIVE ByteSum(_, _, _)
ByteSum(bytes, lo, hi) ==
    IF lo > hi THEN 0
    ELSE IF lo = hi THEN bytes[lo]
    ELSE ByteSum(bytes, lo, (lo + hi) \div 2) + ByteSum(bytes, (lo + hi) \div 2 + 1, hi)

\* C5: for every command and every payload of length 0..252, the frame built
\* by build_cmd_packet passes validate_response for the same command.
C5_BuiltFrameValidates ==
    (f_pc = "validated" /\ origin = "echo" /\ Len(payload) <= MaxValidPayload)
        => verdict = "Ok"

\* C5 witness: the frame of a payload of 252 bytes has been validated
C5_Witness ==
    /\ f_pc = "validated" /\ origin = "echo"
    /\ Len(payload) = MaxValidPayload /\ verdict = "Ok"

\* C6: replacing one payload byte or the checksum byte of a built frame by a
\* different value makes validate_response fail with the checksum mismatch.
C6_FlippedByteIsChecksumMismatch ==
    (f_pc = "validated" /\ origin = "flip") => verdict = "ChecksumMismatch"

\* C6 witness: a payload byte (not the checksum byte) has been replaced and
\* the frame rejected
C6_Witness ==
    /\ f_pc = "validated" /\ origin = "flip"
    /\ flipped >= 5 /\ flipped < Len(response)
    /\ response[flipped] # packet.bytes[flipped]
    /\ verdict = "ChecksumMismatch"

\* C7: for every command and every payload of length 0..252, build_cmd_packet
\* returns 0xFF, 0xFF, command, size, payload, checksum with
\* size = len(payload) + 3 (no wrap-around) and
\* checksum = (command + size + sum of the payload bytes) mod 256, and it
\* does not fail.
C7_PacketLayout ==
    (Built /\ Len(payload) <= MaxValidPayload) =>
        /\ ~packet.panic
        /\ Len(packet.bytes) = Len(payload) + 5
        /\ packet.bytes[1] = 255 /\ packet.bytes[2] = 255
        /\ packet.bytes[3] = cmd
        /\ packet.bytes[4] = Len(payload) + 3
        /\ SubSeq(packet.bytes, 5, Len(payload) + 4) = payload
        /\ packet.bytes[Len(payload) + 5] =
              (cmd + Len(payload) + 3 + ByteSum(payload, 1, Len(payload))) % 256

\* C7 witness: a packet with the largest size byte has been built
C7_Witness ==
    /\ f_pc = "built" /\ ~packet.panic
    /\ Len(payload) = MaxValidPayload /\ packet.bytes[4] = 255

\* C8: for a byte sequence of any length, validate_response reports the
\* command mismatch when byte 2 is absent or is not the command, otherwise
\* the checksum mismatch when the mod-256 sum of bytes[2..len-1] is not the
\* last byte, otherwise success; it never indexes out of bounds.
C8_ValidateDecisionOrder ==
    f_pc = "validated" =>
        /\ verdict # "Panic"
        /\ verdict =
              IF Len(response) < 3 THEN "CommandMismatch"
              ELSE IF response[3] # cmd THEN "CommandMismatch"
              ELSE IF ByteSum(response, 3, Len(response) - 1) % 256
                         # response[Len(response)]
                   THEN "ChecksumMismatch"
              ELSE "Ok"

\* C8 witness: a response of three bytes whose byte 2 is the command
C8_Witness ==
    /\ f_pc = "validated" /\ origin = "raw"
    /\ Len(response) = 3 /\ response[3] = cmd
    /\ verdict = "ChecksumMismatch"

\* the response with its two header bytes replaced by h
WithHeader(resp, h) == h \o SubSeq(resp, 3, Len(resp))

\* the response with its size byte replaced by sz and its last byte moved by
\* the same amount
WithSize(resp, sz) ==
    [resp EXCEPT ![4] = sz,
                 ![Len(resp)] = (resp[Len(resp)] + sz + U8Mod - resp[4]) % U8Mod]

\* C24: the outcome of validate_response depends only on the expected command
\* and on the bytes from index 2 onward: the same response under any other
\* two header bytes gets the same outcome, and so does the response under any
\* other size byte (the checksum moved accordingly), whatever number of bytes
\* was received.
C24_HeaderAndSizeIgnored ==
    (f_pc = "validated" /\ Len(response) >= 2) =>
        /\ \A h \in [1..2 -> ResponseBytes] :
              validate_response(WithHeader(response, h), cmd) = verdict
        /\ Len(response) >= 5 =>
              \A sz \in ResponseBytes :
                  validate_response(WithSize(response, sz), cmd) = verdict

\* C24 witness: a response whose header is not 0xFF 0xFF and whose size field
\* is not the number of bytes received is accepted
C24_Witness ==
    /\ f_pc = "validated" /\ origin = "raw" /\ verdict = "Ok"
    /\ Len(response) = 5
    /\ SubSeq(response, 1, 2) # HEADER
    /\ response[4] \notin {Len(response), Len(response) - 2}

(***************************************************************************)
(* Claims about Sensors::parse_live_data (checked under SpecLive)          *)
(***************************************************************************)
\* the cursor, started at i and moved by 1 + size over registered records,
\* reaches a type id that has no parser
RECURSIVE UnknownAtCursor(_, _)
UnknownAtCursor(buf, i) ==
    IF i >= Len(buf) THEN FALSE
    ELSE IF buf[i + 1] \notin DOMAIN parsers THEN TRUE
    ELSE UnknownAtCursor(buf, i + 1 + parsers[buf[i + 1]].size)

\* the groups of the records from cursor i on: one per record that is whole
\* and whose decoder succeeds, the i-th value under the i-th field name
RECURSIVE ExpectedGroups(_, _)
ExpectedGroups(buf, i) ==
    IF i >= Len(buf) THEN <<>>
    ELSE LET p == parsers[buf[i + 1]]
             whole == i + 1 + p.size <= Len(buf)
             dec == Decode(p.parse_fn, SubSeq(buf, i + 2, i + 1 + p.size))
         IN  (IF whole /\ dec.status = "Ok"
              THEN << [k \in 1..Len(dec.values) |->
                          [field |-> p.field_names[k], value |-> dec.values[k]]] >>
              ELSE <<>>)
             \o ExpectedGroups(buf, i + 1 + p.size)

\* C9: when the cursor reaches a type id that is not in the registry, at any
\* record position, the parse returns the unknown-type error and none of the
\* groups decoded before.
C9_UnknownTypeFailsWholeParse ==
    (l_pc = "done" /\ UnknownAtCursor(data, 0)) =>
        /\ l_result.kind = "Err"
        /\ l_result.groups = <<>>
        /\ l_result.type_id \notin DOMAIN parsers

\* C9 witness: the error is returned after a group had been decoded
C9_Witness ==
    /\ l_pc = "done" /\ l_result.kind = "Err"
    /\ Len(sensor_data) >= 1 /\ index > 0

\* C10: for a buffer of registered records, parse_live_data returns one group
\* per record whose decoder succeeded, in buffer order, values paired with
\* field names by index; a record whose decoder fails gives no group and does
\* not stop the parse; the cursor advances by 1 + size per record; the buffer
\* 0x02 0x00 0xC8 gives one group with the reading outdoor_temp = 20.0.
C10_GroupsPerDecodedRecord ==
    /\ (l_pc = "done" /\ ~UnknownAtCursor(data, 0)) =>
          /\ l_result.kind = "Ok"
          /\ l_result.groups = ExpectedGroups(data, 0)
    /\ last_index >= 0 =>
          /\ data[last_index + 1] \in DOMAIN parsers
          /\ index = last_index + 1 + parsers[data[last_index + 1]].size
    /\ (l_pc = "done" /\ data = <<2, 0, 200>>) =>
          /\ Len(l_result.groups) = 1
          /\ Len(l_result.groups[1]) = 1
          /\ l_result.groups[1][1].field = "outdoor_temp"
          /\ l_result.groups[1][1].value.kind = "Temp"
          /\ l_result.groups[1][1].value.hi = 0
          /\ l_result.groups[1][1].value.num = 20 * l_result.groups[1][1].value.den

\* C10 witness: a record whose decoder fails (type 0x70, 16 bytes) is followed
\* by a record that is decoded, and the parse returns that one group
C10_Witness ==
    /\ l_pc = "done" /\ l_result.kind = "Ok"
    /\ Len(data) = 20 /\ data[1] = 112
    /\ Len(l_result.groups) = 1
    /\ l_result.groups[1][1].field = "outdoor_temp"

(***************************************************************************)
(* SpecDecode: one value decoder applied to one slice                      *)
(*                                                                         *)
(* The decoder is either taken from a registry entry and given a slice of  *)
(* the entry's declared size, as Sensors::parse_live_data does, or called  *)
(* directly on a slice of any length.                                      *)
(***************************************************************************)
DecoderNames ==
    { "parse_temp", "parse_humidity", "parse_moist", "parse_pressure", "parse_speed",
      "parse_rain", "parse_rainlarge", "parse_distance", "parse_direction",
      "parse_count", "parse_gain", "parse_light", "parse_uv", "parse_uv_index",
      "parse_pm10", "parse_pm25", "parse_leak", "parse_co2", "parse_utc",
      "parse_datetime", "parse_wh45", "skip_data" }

\* the slices handed to a decoder: every sequence over five byte values up
\* to MaxSlice bytes, and patterned slices of the widths the registry
\* declares (4, 6, 16) and of the widths next to them
Slices ==
    LET SliceBytes == {0, 127, 128, 200, 255}
        WideLens == {4, 5, 6, 7, 15, 16, 17}
        WidePatterns == {<<0, 0>>, <<0, 255>>, <<7, 3>>}
    IN  SeqsUpTo(SliceBytes, MaxSlice)
        \cup {[i \in 1..n |-> (pt[1] * i + pt[2]) % U8Mod] : n \in WideLens, pt \in WidePatterns}

DecodeInit ==
    /\ debug_build \in BOOLEAN
    /\ d_pc = "input" /\ d_out = NoDecoded
    /\ \/ /\ d_id \in DOMAIN parsers
          /\ d_fn = parsers[d_id].parse_fn
          /\ d_in \in {d \in Slices : Len(d) = parsers[d_id].size}
       \/ /\ d_id = -1
          /\ d_fn \in DecoderNames
          /\ d_in \in Slices
    /\ FrameIdle /\ SendIdle /\ LiveIdle /\ MetaIdle /\ ClientIdle /\ PollIdle

\* (parser.parse_fn)(&field_data) on a slice of parser.size bytes
CallRegistered ==
    /\ d_pc = "input" /\ d_id \in DOMAIN parsers
    /\ d_out' = Decode(parsers[d_id].parse_fn, d_in)
    /\ d_pc' = "done"
    /\ UNCHANGED <<d_id, d_fn, d_in>>

\* SensorValue::parse_xxx(&slice)
CallDecoder ==
    /\ d_pc = "input" /\ d_id = -1
    /\ d_out' = Decode(d_fn, d_in)
    /\ d_pc' = "done"
    /\ UNCHANGED <<d_id, d_fn, d_in>>

DecodeNext ==
    \/ CallRegistered /\ UNCHANGED <<frame_vars, send_vars, live_vars, meta_vars, client_vars, poll_vars>>
    \/ CallDecoder /\ UNCHANGED <<frame_vars, send_vars, live_vars, meta_vars, client_vars, poll_vars>>

SpecDecode == DecodeInit /\ [][DecodeNext]_vars

(***************************************************************************)
(* Claims about the decoders (checked under SpecDecode)                    *)
(***************************************************************************)
\* C11: parse_wh45 given exactly 16 bytes returns eight values in the order
\* temperature (bytes 0-1), humidity (byte 2), PM10 (3-4), 24-hour PM10
\* average (5-6), PM2.5 (7-8), 24-hour PM2.5 average (9-10), CO2 (11-12),
\* 24-hour CO2 average (13-14), each as the matching single-value decoder
\* returns it; given any other length it returns a length error.
C11_Wh45DecodesSixteenBytes ==
    (d_pc = "done" /\ d_fn = "parse_wh45") =>
        IF Len(d_in) = 16
        THEN d_out = DecOk(<< parse_temp(Slice(d_in, 0, 2)).values[1],
                              parse_humidity(Slice(d_in, 2, 3)).values[1],
                              parse_pm10(Slice(d_in, 3, 5)).values[1],
                              parse_pm10(Slice(d_in, 5, 7)).values[1],
                              parse_pm25(Slice(d_in, 7, 9)).values[1],
                              parse_pm25(Slice(d_in, 9, 11)).values[1],
                              parse_co2(Slice(d_in, 11, 13)).values[1],
                              parse_co2(Slice(d_in, 13, 15)).values[1] >>)
        ELSE d_out = DecErr
\* the decoders of a signed 16-bit number of tenths
TenthsDecoders ==
    { "parse_temp", "parse_pressure", "parse_speed", "parse_rain", "parse_uv",
      "parse_pm10", "parse_pm25" }

\* the two's-complement signed 16-bit reading of hi * 256 + lo
Signed16(hi, lo) == ((hi * 256 + lo + 32768) % 65536) - 32768

\* C17: parse_temp, parse_pressure, parse_speed, parse_rain, parse_uv,
\* parse_pm10 and parse_pm25 given two bytes hi, lo return the signed 16-bit
\* reading of hi * 256 + lo divided by 10: 00 C8 is 20.0, 7F FF is 3276.7,
\* 80 00 is -3276.8, FF FF is -0.1; ten times the result is in -32768..32767.
C17_SignedTenths ==
    (d_pc = "done" /\ d_fn \in TenthsDecoders /\ Len(d_in) = 2) =>
        /\ d_out.status = "Ok" /\ Len(d_out.values) = 1
        /\ LET v == d_out.values[1]
           IN  /\ v.den = 10 /\ v.hi = 0
               /\ v.num = Signed16(d_in[1], d_in[2])
               /\ v.num \in -32768..32767
               /\ d_in = <<0, 200>> => v.num = 200
               /\ d_in = <<127, 255>> => v.num = 32767
               /\ d_in = <<128, 0>> => v.num = -32768
               /\ d_in = <<255, 255>> => v.num = -1

\* parse_pressure on 80 00 has returned -3276.8
C17_Witness ==
    /\ d_pc = "done" /\ d_fn = "parse_pressure" /\ d_in = <<128, 0>>
    /\ d_out = DecOk(<<Val("Pressure", -32768, 10)>>)

\* C20: for every entry of the registry, the entry's decoder applied to any
\* slice of exactly the entry's declared size succeeds and returns exactly
\* as many values as the entry has field names; hence no registered type id
\* has all its records dropped.
C20_RegistrySizesFitDecoders ==
    (d_pc = "done" /\ d_id \in DOMAIN parsers) =>
        /\ Len(d_in) = parsers[d_id].size
        /\ d_out.status = "Ok"
        /\ Len(d_out.values) = Len(parsers[d_id].field_names)

\* the width in bytes of the encoding each single-value decoder reads
WidthOf(fn) ==
    CASE fn \in {"parse_humidity", "parse_moist", "parse_distance", "parse_uv_index",
                 "parse_leak"} -> 1
      [] fn \in {"parse_temp", "parse_pressure", "parse_speed", "parse_rain",
                 "parse_direction", "parse_uv", "parse_pm10", "parse_pm25",
                 "parse_co2"} -> 2
      [] fn \in {"parse_rainlarge", "parse_count", "parse_gain", "parse_light",
                 "parse_utc"} -> 4
      [] fn = "parse_datetime" -> 6

\* C21: every single-value decoder returns a length error for every slice
\* whose length differs from the width of its encoding (1, 2, 4 or 6 bytes)
\* and a value only for a slice of exactly that width; in particular
\* parse_pressure, parse_speed, parse_rain, parse_uv, parse_pm10 and
\* parse_pm25 given 3 or more bytes return the error.
C21_LengthErrorUnlessExactWidth ==
    (d_pc = "done" /\ d_fn \in DecoderNames \ {"parse_wh45", "skip_data"}) =>
        IF Len(d_in) = WidthOf(d_fn)
        THEN d_out.status = "Ok" /\ Len(d_out.values) = 1
        ELSE d_out = DecErr

(***************************************************************************)
(* Sensor inventory (impl SensorMetadata, Sensors::update_metadata)        *)
(*                                                                         *)
(* A String is held as the sequence of its parts (a literal, or a literal  *)
(* and the number format! appends). The f64 battery level of a record is   *)
(* held as a count of tenths, so that 1.2 is the integer 12. A u32 address *)
(* is <<high half, low half>>. A HashMap<u32, SensorMetadata> is the set   *)
(* of its [k, v] entries, with one entry per key.                          *)
(***************************************************************************)
\* f64::from(batt), in tenths
F64(batt) == batt * 10

\* faulty variant of parse_type: the channels of the WH-31 family are counted
\* from 0
parse_type_wh31_from_zero(id) ==
    CASE id = 0 -> Some(<<"wh65">>)
      [] id = 1 -> Some(<<"wh68">>)
      [] id = 2 -> Some(<<"wh80">>)
      [] id = 3 -> Some(<<"wh40">>)
      [] id = 4 -> Some(<<"wh25">>)
      [] id = 5 -> Some(<<"wh26">>)
      [] id \in 6..13 -> Some(<<"wh31_ch", id - 6>>)
      [] id \in 14..21 -> Some(<<"wh51_ch", id - 13>>)
      [] id \in 22..25 -> Some(<<"wh41_ch", id - 21>>)
      [] id = 26 -> Some(<<"wh57">>)
      [] id \in 27..30 -> Some(<<"wh55_ch", id - 26>>)
      [] id \in 31..37 -> Some(<<"wh34_ch", id - 30>>)
      [] id = 39 -> Some(<<"wh45">>)
      [] id \in 40..47 -> Some(<<"wh35_ch", id - 39>>)
      [] OTHER -> None

\* fn parse_type(id: u8) -> Option<String>
parse_type(id) ==
    CASE id = 0 -> Some(<<"wh65">>)
      [] id = 1 -> Some(<<"wh68">>)
      [] id = 2 -> Some(<<"wh80">>)
      [] id = 3 -> Some(<<"wh40">>)
      [] id = 4 -> Some(<<"wh25">>)
      [] id = 5 -> Some(<<"wh26">>)
      [] id \in 6..13 -> Some(<<"wh31_ch", id - 5>>)
      [] id \in 14..21 -> Some(<<"wh51_ch", id - 13>>)
      [] id \in 22..25 -> Some(<<"wh41_ch", id - 21>>)
      [] id = 26 -> Some(<<"wh57">>)
      [] id \in 27..30 -> Some(<<"wh55_ch", id - 26>>)
      [] id \in 31..37 -> Some(<<"wh34_ch", id - 30>>)
      [] id = 39 -> Some(<<"wh45">>)
      [] id \in 40..47 -> Some(<<"wh35_ch", id - 39>>)
      [] OTHER -> None

\* fn parse_type_desc(id: u8) -> Option<String>
parse_type_desc(id) ==
    CASE id = 0 -> Some(<<"WH-65">>)
      [] id = 1 -> Some(<<"WH-68">>)
      [] id = 2 -> Some(<<"WH-80">>)
      [] id = 3 -> Some(<<"WH-40">>)
      [] id = 4 -> Some(<<"WH-25">>)
      [] id = 5 -> Some(<<"WH-26">>)
      [] id \in 6..13 -> Some(<<"WH-31 channel ", id - 5>>)
      [] id \in 14..21 -> Some(<<"WH-51 channel ", id - 13>>)
      [] id \in 22..25 -> Some(<<"WH-41 channel ", id - 21>>)
      [] id = 26 -> Some(<<"WH-57">>)
      [] id \in 27..30 -> Some(<<"WH-55 channel ", id - 26>>)
      [] id \in 31..37 -> Some(<<"WH-34 channel ", id - 30>>)
      [] id = 39 -> Some(<<"WH-45">>)
      [] id \in 40..47 -> Some(<<"WH-35 channel ", id - 39>>)
      [] OTHER -> None

\* faulty variant of parse_battery_state: the integer scale never reports
\* Connected
parse_battery_state_no_connected(id, battery) ==
    CASE id = 0 \/ id = 4 \/ id \in 5..13 ->
            IF battery = 10 THEN Some("Low")
            ELSE IF battery = 0 THEN Some("Ok")
            ELSE Some("Unknown")
      [] id \in 22..30 \/ id = 39 ->
            IF battery <= 10 THEN Some("Low")
            ELSE IF battery <= 50 THEN Some("Ok")
            ELSE Some("Unknown")
      [] id \in 1..3 \/ id \in 14..21 \/ id \in 31..38 \/ id \in 40..48 ->
            IF battery <= 12 THEN Some("Low") ELSE Some("Ok")
      [] OTHER -> Some("Unknown")

\* fn parse_battery_state(id: u8, battery: f64) -> Option<SensorBatteryState>
parse_battery_state(id, battery) ==
    CASE id = 0 \/ id = 4 \/ id \in 5..13 ->
            IF battery = 10 THEN Some("Low")
            ELSE IF battery = 0 THEN Some("Ok")
            ELSE Some("Unknown")
      [] id \in 22..30 \/ id = 39 ->
            IF battery <= 10 THEN Some("Low")
            ELSE IF battery <= 50 THEN Some("Ok")
            ELSE IF battery = 60 THEN Some("Connected")
            ELSE Some("Unknown")
      [] id \in 1..3 \/ id \in 14..21 \/ id \in 31..38 \/ id \in 40..48 ->
            IF battery <= 12 THEN Some("Low") ELSE Some("Ok")
      [] OTHER -> Some("Unknown")

\* Option::unwrap_or
unwrap_or(opt, default) == IF opt.some THEN opt.val ELSE default

\* fn SensorMetadata::new(type_id, address, battery: Option<f64>, signal)
\* battery.unwrap() panics on None
SensorMetadata_new(type_id, address, battery, signal) ==
    IF ~battery.some THEN [status |-> "Panic"]
    ELSE [ status |-> "Ok",
           type_id |-> type_id,
           type_id_str |-> unwrap_or(parse_type(type_id), <<"unknown">>),
           type_desc |-> unwrap_or(parse_type_desc(type_id), <<"unknown">>),
           address |-> address,
           battery_level |-> battery,
           battery_state |-> parse_battery_state(type_id, battery.val),
           signal |-> signal ]

\* faulty variant of HashMap::insert: an entry already under the key is kept
HashMap_insert_keeps_first(metadata, k, v) ==
    IF \E e \in metadata : e.k = k THEN metadata
    ELSE metadata \cup {[k |-> k, v |-> v]}

\* HashMap::insert: the entry of the key is replaced
HashMap_insert(metadata, k, v) ==
    {e \in metadata : e.k # k} \cup {[k |-> k, v |-> v]}

\* the address of an unpopulated record: 0xffffffff
Unpopulated == <<65535, 65535>>

\* faulty variant of metadata_record: the record is inserted whatever its
\* address
metadata_record_keeps_unpopulated(region, idx, metadata) ==
    LET type_id == region[idx + 1]
        address == U32(Slice(region, idx + 1, idx + 5))
        batt == region[idx + 6]
        signal == region[idx + 7]
    IN  HashMap_insert(metadata, address,
                       SensorMetadata_new(type_id, address, Some(F64(batt)), signal))

\* one iteration of the loop of update_metadata on the record at `idx`
\* (0-based): the map after it
metadata_record(region, idx, metadata) ==
    LET type_id == region[idx + 1]
        address == U32(Slice(region, idx + 1, idx + 5))
        batt == region[idx + 6]
        signal == region[idx + 7]
    IN  IF address # Unpopulated
        THEN HashMap_insert(metadata, address,
                            SensorMetadata_new(type_id, address, Some(F64(batt)), signal))
        ELSE metadata

\* the loop `while index < data.len()` of update_metadata, started at `idx`
\* with the map `metadata`; a slice or an index out of range panics
RECURSIVE metadata_loop(_, _, _)
metadata_loop(region, idx, metadata) ==
    IF ~(idx < Len(region)) THEN Out("Ok", metadata)
    ELSE IF ~SliceOk(region, idx + 1, idx + 5)
            \/ ~(idx + 5 < Len(region)) \/ ~(idx + 6 < Len(region))
         THEN Out("Panic", {})
    ELSE metadata_loop(region, idx + 7, metadata_record(region, idx, metadata))

\* fn Sensors::update_metadata(&self, id_data) -> Result<HashMap<u32, SensorMetadata>, String>
update_metadata(id_data) ==
    IF id_data = <<>> THEN Out("Ok", {})
    ELSE IF ~SliceOk(id_data, 3, 5) THEN Out("Panic", {})
    ELSE LET data_size == id_data[4] * U8Mod + id_data[5]
             end == 5 + data_size - 4
         IN  IF ~SliceOk(id_data, 5, end) THEN Out("Panic", {})
             ELSE metadata_loop(Slice(id_data, 5, end), 0, {})

(***************************************************************************)
(* SpecMeta: SensorMetadata::new on one record of every type id and        *)
(* battery byte                                                            *)
(***************************************************************************)
MetaInit ==
    /\ debug_build \in BOOLEAN
    /\ m_pc = "input"
    /\ m_type \in 0..U8Max
    /\ m_batt \in 0..U8Max
    /\ m_meta = NoMeta
    /\ FrameIdle /\ SendIdle /\ LiveIdle /\ DecodeIdle /\ ClientIdle /\ PollIdle

\* SensorMetadata::new(type_id, address, Some(f64::from(batt)), signal)
NewMetadata ==
    /\ m_pc = "input"
    /\ m_meta' = SensorMetadata_new(m_type, <<0, 161>>, Some(F64(m_batt)), 4)
    /\ m_pc' = "done"
    /\ UNCHANGED <<m_type, m_batt>>

\* Sensors::update_metadata on an inventory response that holds the one
\* record (type_id, address 0x000000A1, batt, signal 4)
FetchOneRecord ==
    /\ m_pc = "input"
    /\ LET body == <<ReadSensorIdNew, 0, 11, m_type, 0, 0, 0, 161, m_batt, 4>>
       IN  m_meta' = update_metadata(HEADER \o body \o <<generate_checksum(body)>>)
    /\ m_pc' = "fetched"
    /\ UNCHANGED <<m_type, m_batt>>

MetaNext ==
    \/ NewMetadata /\ UNCHANGED <<frame_vars, send_vars, live_vars, decode_vars, client_vars, poll_vars>>
    \/ FetchOneRecord /\ UNCHANGED <<frame_vars, send_vars, live_vars, decode_vars, client_vars, poll_vars>>

SpecMeta == MetaInit /\ [][MetaNext]_vars
(***************************************************************************)
(* The gateway client (impl SensorGateway)                                 *)
(*                                                                         *)
(* send_cmd is taken by its result: Err after max_tries failed attempts,   *)
(* or Ok(data) with a response that passed validate_response. The Strings  *)
(* of the client are held as their UTF-8 bytes.                            *)
(***************************************************************************)
\* what send_cmd returns
SendErr == [kind |-> "Err", data |-> <<>>]
SendOk(bytes) == [kind |-> "Ok", data |-> bytes]

\* String::from_utf8: whether the bytes from position i (1-based) on are
\* well-formed UTF-8
RECURSIVE utf8_from(_, _)
utf8_from(b, i) ==
    IF i > Len(b) THEN TRUE
    ELSE LET c == b[i]
             cont(k) == i + k <= Len(b) /\ b[i + k] \in 128..191
             second(lo, hi) == i + 1 <= Len(b) /\ b[i + 1] \in lo..hi
         IN  IF c < 128 THEN utf8_from(b, i + 1)
             ELSE IF c \in 194..223 THEN cont(1) /\ utf8_from(b, i + 2)
             ELSE IF c = 224 THEN second(160, 191) /\ cont(2) /\ utf8_from(b, i + 3)
             ELSE IF c \in 225..236 \/ c \in 238..239
                  THEN cont(1) /\ cont(2) /\ utf8_from(b, i + 3)
             ELSE IF c = 237 THEN second(128, 159) /\ cont(2) /\ utf8_from(b, i + 3)
             ELSE IF c = 240
                  THEN second(144, 191) /\ cont(2) /\ cont(3) /\ utf8_from(b, i + 4)
             ELSE IF c \in 241..243
                  THEN cont(1) /\ cont(2) /\ cont(3) /\ utf8_from(b, i + 4)
             ELSE IF c = 244
                  THEN second(128, 143) /\ cont(2) /\ cont(3) /\ utf8_from(b, i + 4)
             ELSE FALSE

from_utf8(bytes) == IF utf8_from(bytes, 1) THEN Out("Ok", bytes) ELSE Out("Err", <<>>)

\* format!("{:02X}", byte): two upper-case hexadecimal digits, as ASCII
Hex02X(byte) ==
    LET HexDigit(n) == IF n < 10 THEN 48 + n ELSE 55 + n
    IN  <<HexDigit(byte \div 16), HexDigit(byte % 16)>>

\* fn bytes_to_hex(data, separator) -> String
RECURSIVE bytes_to_hex(_, _)
bytes_to_hex(bytes, separator) ==
    IF bytes = <<>> THEN <<>>
    ELSE IF Len(bytes) = 1 THEN Hex02X(bytes[1])
    ELSE Hex02X(bytes[1]) \o separator \o bytes_to_hex(Tail(bytes), separator)

\* str::replace(":", "") and str::to_lowercase on an ASCII string
replace_colon(str) == SelectSeq(str, LAMBDA c : c # 58)
to_lowercase(str) == [i \in 1..Len(str) |-> IF str[i] \in 65..90 THEN str[i] + 32 ELSE str[i]]

\* fn name(&self) -> String: unwrap() panics on None
name(mac, debug) ==
    IF ~mac.some THEN Out("Panic", <<>>)
    ELSE LET lower == to_lowercase(replace_colon(mac.val))
         IN  Out("Ok", IF debug THEN lower \o <<95, 100, 101, 98, 117, 103>> ELSE lower)

\* fn version(&self) -> String and fn firmware(&self) -> String
version(fw) == IF ~fw.some THEN Out("Panic", <<>>) ELSE Out("Ok", replace_colon(fw.val))

\* the loop of Sensors::parse_live_data from the cursor i (0-based) with the
\* groups collected so far
RECURSIVE live_loop(_, _, _)
live_loop(buf, i, groups) ==
    IF ~(i < Len(buf)) THEN Out("Ok", groups)
    ELSE IF buf[i + 1] \notin DOMAIN parsers THEN Out("Err", <<>>)
    ELSE LET parser == parsers[buf[i + 1]]
             fits == i + 1 + parser.size <= Len(buf)
             parsed == Decode(parser.parse_fn, Slice(buf, i + 1, i + 1 + parser.size))
         IN  IF fits /\ (parsed.status = "Panic"
                         \/ Len(parsed.values) > Len(parser.field_names))
             THEN Out("Panic", <<>>)
             ELSE live_loop(buf, i + parser.size + 1,
                            IF fits /\ parsed.status = "Ok"
                            THEN Append(groups, ZipFields(parsed.values, parser.field_names))
                            ELSE groups)

\* fn Sensors::parse_live_data(&self, data) as one call
Sensors_parse_live_data(buf) == live_loop(buf, 0, <<>>)

\* fn SensorGateway::parse_live_data(&self, response)
parse_live_data(resp) ==
    IF ~(3 < Len(resp)) \/ ~(4 < Len(resp)) THEN Out("Panic", <<>>)
    ELSE LET payload_size == resp[4] * U8Mod + resp[5]
         IN  IF Len(resp) < payload_size THEN Out("Err", <<>>)
             ELSE IF ~SliceOk(resp, 5, 5 + payload_size - 4) THEN Out("Panic", <<>>)
             ELSE Sensors_parse_live_data(Slice(resp, 5, 5 + payload_size - 4))

\* fn update_sensor_metadata(&self), given what send_cmd returned
update_sensor_metadata(sent) ==
    IF sent.kind = "Ok" THEN update_metadata(sent.data) ELSE Out("Err", {})

\* fn get_live_data(&self), given what send_cmd returned
get_live_data(sent) ==
    IF sent.kind = "Ok" THEN parse_live_data(sent.data) ELSE Out("Err", <<>>)

\* fn get_firmware_version(&mut self), given what send_cmd returned
get_firmware_version(sent) ==
    IF sent.kind # "Ok" THEN Out("Err", <<>>)
    ELSE IF ~(4 < Len(sent.data)) THEN Out("Panic", <<>>)
    ELSE LET fw_size == sent.data[5]
         IN  IF ~SliceOk(sent.data, 5, 5 + fw_size) THEN Out("Panic", <<>>)
             ELSE from_utf8(Slice(sent.data, 5, 5 + fw_size))

\* fn get_station_mac(&mut self), given what send_cmd returned
get_station_mac(sent) ==
    IF sent.kind # "Ok" THEN Out("Err", <<>>)
    ELSE IF ~SliceOk(sent.data, 3, 10) THEN Out("Panic", <<>>)
    ELSE Out("Ok", bytes_to_hex(Slice(sent.data, 3, 10), <<58>>))
(***************************************************************************)
(* SpecClient: SensorGateway::new, then calls on the returned client       *)
(***************************************************************************)
\* a response to command c that passes validate_response: the body between
\* the command byte and the checksum is free
FrameOf(c, body) == HEADER \o <<c>> \o body \o <<generate_checksum(<<c>> \o body)>>

\* the 16-bit big-endian size field of a response
Be16(n) == <<n \div U8Mod, n % U8Mod>>

\* bodies that are too short for the fields the callers read
ShortBodies == SeqsUpTo({0, 255}, MaxBody)

\* inventory records: type id, address (4 bytes), battery, signal. Two
\* records are unpopulated, two have the same address.
RecordList ==
    << <<6, 0, 0, 0, 161, 0, 4>>,
       <<1, 255, 255, 255, 255, 31, 0>>,
       <<39, 0, 0, 0, 162, 6, 3>>,
       <<14, 0, 0, 0, 161, 16, 1>>,
       <<2, 255, 255, 255, 255, 0, 0>>,
       <<200, 0, 1, 0, 0, 9, 2>> >>

\* the records of RecordList at the positions in I, from position k on
RECURSIVE PickFrom(_, _)
PickFrom(k, I) ==
    IF k > Len(RecordList) THEN <<>>
    ELSE (IF k \in I THEN RecordList[k] ELSE <<>>) \o PickFrom(k + 1, I)

\* sensor regions of whole records: up to MaxRecords records of RecordList
RecordRegions ==
    {PickFrom(1, I) : I \in {J \in SUBSET (1..Len(RecordList)) : Cardinality(J) <= MaxRecords}}

\* inventory responses: whole records under the size the device declares
\* (region + 4), then regions that end inside a record and sizes that do not
\* match the response
MetaBodies ==
    {Be16(Len(r) + 4) \o r : r \in RecordRegions}
    \cup {Be16(Len(r) + 4) \o r : r \in {<<6>>, <<6, 0, 0, 0, 161, 0, 4, 39, 0, 0>>}}
    \cup {Be16(n) \o <<6, 0, 0, 0, 161, 0, 4>> : n \in {0, 3, 4, 10, 12, 13, 300}}
    \cup ShortBodies

\* live-data regions: records of the registry, an unknown type id, a record
\* that ends after the buffer
LiveRegions ==
    { <<>>, <<6, 50>>, <<2, 0, 200>>, <<2, 0, 200, 6, 50>>, <<200>>, <<2, 0>>,
      <<15, 0, 100>> }

LiveBodies ==
    {Be16(Len(r) + 4) \o r : r \in LiveRegions}
    \cup {Be16(n) \o <<6, 50>> : n \in {0, 3, 4, 5, 7, 8, 9, 300}}
    \cup ShortBodies

\* firmware responses: size byte, length byte, text
FirmwareBodies ==
    { <<>>, <<5, 1, 65>>, <<5, 9, 65>>, <<5, 1, 200>>, <<7, 3, 86, 58, 49>> }

\* station responses: size byte, six address bytes
MacBodies ==
    { <<>>, <<9, 171, 1, 2, 3, 4, 5>>, <<8, 171, 1, 2, 3, 4>> }

\* what send_cmd may hand to the caller of each command
SendResults(c, bodies) == {SendErr} \cup {SendOk(FrameOf(c, b)) : b \in bodies}
MetaResults == SendResults(ReadSensorIdNew, MetaBodies)
LiveResults == SendResults(LiveData, LiveBodies)
FirmwareResults == SendResults(ReadFirmwareVersion, FirmwareBodies)
MacResults == SendResults(ReadStationMac, MacBodies)

\* keys of a metadata map
Keys(map) == {e.k : e \in map}

ClientInit ==
    /\ debug_build \in BOOLEAN
    /\ g_pc = "new_metadata"
    /\ firmware = None /\ mac_address = None
    /\ registry = parsers
    /\ g_op = "none" /\ g_resp = NoSent /\ g_out = NoOut
    /\ new_sent = <<>> /\ seen = {}
    /\ FrameIdle /\ SendIdle /\ LiveIdle /\ DecodeIdle /\ MetaIdle /\ PollIdle

\* the call returned `out` (a panic unwinds out of the client)
Returned(op, sent, out) ==
    /\ g_op' = op /\ g_resp' = sent /\ g_out' = out
    /\ seen' = IF op = "update_sensor_metadata" /\ out.kind = "Ok"
               THEN seen \cup Keys(out.val) ELSE seen

\* new: let _not_used = gateway.update_sensor_metadata()
NewUpdateMetadata ==
    /\ g_pc = "new_metadata"
    /\ \E sent \in MetaResults :
          LET out == update_sensor_metadata(sent)
          IN  /\ Returned("update_sensor_metadata", sent, out)
              /\ new_sent' = Append(new_sent, sent.kind)
              /\ g_pc' = IF out.kind = "Panic" THEN "panicked" ELSE "new_firmware"
    /\ UNCHANGED <<firmware, mac_address, registry>>

\* new: if let Ok(firmware) = gateway.get_firmware_version()
NewFirmware ==
    /\ g_pc = "new_firmware"
    /\ \E sent \in FirmwareResults :
          LET out == get_firmware_version(sent)
          IN  /\ Returned("get_firmware_version", sent, out)
              /\ new_sent' = Append(new_sent, sent.kind)
              /\ firmware' = IF out.kind = "Ok" THEN Some(out.val) ELSE firmware
              /\ g_pc' = IF out.kind = "Panic" THEN "panicked" ELSE "new_mac"
    /\ UNCHANGED <<mac_address, registry>>

\* new: if let Ok(mac_address) = gateway.get_station_mac(), then `gateway`
\* is returned
NewMac ==
    /\ g_pc = "new_mac"
    /\ \E sent \in MacResults :
          LET out == get_station_mac(sent)
          IN  /\ Returned("get_station_mac", sent, out)
              /\ new_sent' = Append(new_sent, sent.kind)
              /\ mac_address' = IF out.kind = "Ok" THEN Some(out.val) ELSE mac_address
              /\ g_pc' = IF out.kind = "Panic" THEN "panicked" ELSE "ready"
    /\ UNCHANGED <<firmware, registry>>

\* a call on the returned client that sends nothing
Getter(op, out) ==
    /\ g_pc = "ready"
    /\ Returned(op, NoSent, out)
    /\ g_pc' = IF out.kind = "Panic" THEN "panicked" ELSE "ready"
    /\ UNCHANGED <<firmware, mac_address, registry, new_sent>>

Name == Getter("name", name(mac_address, debug_build))
Version == Getter("version", version(firmware))
Firmware == Getter("firmware", version(firmware))

\* faulty variant of UpdateSensorMetadata: the map of the fetch before is
\* kept and the records of the response are added to it
UpdateSensorMetadataKeepsMap ==
    /\ g_pc = "ready"
    /\ \E sent \in MetaResults :
          LET fresh == update_sensor_metadata(sent)
              out == IF fresh.kind = "Ok" /\ g_op = "update_sensor_metadata"
                        /\ g_out.kind = "Ok"
                     THEN Out("Ok", fresh.val \cup
                                    {e \in g_out.val : e.k \notin Keys(fresh.val)})
                     ELSE fresh
          IN  /\ Returned("update_sensor_metadata", sent, out)
              /\ g_pc' = IF out.kind = "Panic" THEN "panicked" ELSE "ready"
    /\ UNCHANGED <<firmware, mac_address, registry, new_sent>>

\* gateway.update_sensor_metadata() on the returned client
UpdateSensorMetadata ==
    /\ g_pc = "ready"
    /\ \E sent \in MetaResults :
          LET out == update_sensor_metadata(sent)
          IN  /\ Returned("update_sensor_metadata", sent, out)
              /\ g_pc' = IF out.kind = "Panic" THEN "panicked" ELSE "ready"
    /\ UNCHANGED <<firmware, mac_address, registry, new_sent>>

\* gateway.get_live_data() on the returned client
GetLiveData ==
    /\ g_pc = "ready"
    /\ \E sent \in LiveResults :
          LET out == get_live_data(sent)
          IN  /\ Returned("get_live_data", sent, out)
              /\ g_pc' = IF out.kind = "Panic" THEN "panicked" ELSE "ready"
    /\ UNCHANGED <<firmware, mac_address, registry, new_sent>>

ClientNext ==
    \/ NewUpdateMetadata /\ UNCHANGED <<frame_vars, send_vars, live_vars, decode_vars, meta_vars, poll_vars>>
    \/ NewFirmware /\ UNCHANGED <<frame_vars, send_vars, live_vars, decode_vars, meta_vars, poll_vars>>
    \/ NewMac /\ UNCHANGED <<frame_vars, send_vars, live_vars, decode_vars, meta_vars, poll_vars>>
    \/ Name /\ UNCHANGED <<frame_vars, send_vars, live_vars, decode_vars, meta_vars, poll_vars>>
    \/ Version /\ UNCHANGED <<frame_vars, send_vars, live_vars, decode_vars, meta_vars, poll_vars>>
    \/ Firmware /\ UNCHANGED <<frame_vars, send_vars, live_vars, decode_vars, meta_vars, poll_vars>>
    \/ UpdateSensorMetadata /\ UNCHANGED <<frame_vars, send_vars, live_vars, decode_vars, meta_vars, poll_vars>>
    \/ GetLiveData /\ UNCHANGED <<frame_vars, send_vars, live_vars, decode_vars, meta_vars, poll_vars>>

SpecClient == ClientInit /\ [][ClientNext]_vars

\* every response send_cmd hands over passes validate_response
SentValidated ==
    g_resp.kind = "Ok" =>
        \E c \in GatewayCommands : validate_response(g_resp.data, c) = "Ok"
(***************************************************************************)
(* SpecPoll: the polls of one Gateway of main.rs, one loop iteration per   *)
(* step. A panic unwinds out of main (the first poll and the scheduled     *)
(* ones run on the main thread): the process is gone, "aborted".           *)
(***************************************************************************)
\* what SensorGateway::new left in firmware and mac_address
PollFirmwares ==
    {None, Some(get_firmware_version(SendOk(FrameOf(ReadFirmwareVersion, <<7, 3, 86, 58, 49>>))).val)}
PollMacs ==
    {None, Some(get_station_mac(SendOk(FrameOf(ReadStationMac, <<9, 171, 1, 2, 3, 4, 5>>))).val)}

\* the sensor configuration files: no sensor, one sensor under its own name,
\* two sensors of which one has a configured name
SensorConfigs ==
    { {},
      {[k |-> "outdoor_temp", name |-> None]},
      {[k |-> "outdoor_temp", name |-> Some("temp")], [k |-> "in_humidity", name |-> None]} }

\* what send_cmd returns to the two fetches of a poll
PollMetaResults ==
    SendResults(ReadSensorIdNew,
                {Be16(Len(r) + 4) \o r :
                    r \in {<<>>, RecordList[1], RecordList[1] \o RecordList[3], RecordList[6]}}
                \cup {<<>>})
PollLiveResults ==
    SendResults(LiveData,
                {Be16(Len(r) + 4) \o r : r \in {<<>>, <<2, 0, 200>>, <<2, 0, 200, 6, 50>>, <<200>>}}
                \cup {<<>>})

PollInit ==
    /\ debug_build \in BOOLEAN
    /\ g_pc = "ready" /\ registry = parsers
    /\ firmware \in PollFirmwares /\ mac_address \in PollMacs
    /\ g_op = "none" /\ g_resp = NoSent /\ g_out = NoOut
    /\ new_sent = <<>> /\ seen = {}
    /\ p_pc = "idle" /\ polls = 0
    /\ sensor_config \in SensorConfigs /\ discovered_sensor = {}
    /\ p_meta = {} /\ p_data = <<>> /\ vals = {}
    /\ disc_ok = <<>> /\ p_failed = {} /\ failed_before = {} /\ info_pub = {}
    /\ data_pub = NoDataPub /\ p_fetch = "none"
    /\ FrameIdle /\ SendIdle /\ LiveIdle /\ DecodeIdle /\ MetaIdle

\* fn sent_discovery(&self, name) -> bool
sent_discovery(discovered, nm) == nm \in discovered

\* faulty variant of send_discovery_sensor: the name is recorded whatever the
\* publish returned
send_discovery_sensor_records_always(discovered, nm, ok) == discovered \cup {nm}

\* fn send_discovery_sensor(&self, name, payload): discovered_sensor after
\* the call, given whether the publish returned Ok
send_discovery_sensor(discovered, nm, ok) ==
    IF ok THEN discovered \cup {nm} ELSE discovered

\* fn get_sensor_name(&self, sensor, config) -> String
get_sensor_name(field, config) ==
    IF config.name.some THEN config.name.val ELSE field

\* DiscoverySensor::new and DiscoverySensorDevice::new call name(), version()
\* and firmware() of the client: whether building the payload panics
PayloadPanics ==
    \/ name(mac_address, debug_build).kind = "Panic"
    \/ version(firmware).kind = "Panic"

\* the readings of the groups, in order
RECURSIVE Flatten(_)
Flatten(groups) ==
    IF groups = <<>> THEN <<>> ELSE Head(groups) \o Flatten(Tail(groups))

\* the process aborts
Abort ==
    /\ p_pc' = "aborted"
    /\ UNCHANGED <<polls, discovered_sensor, p_meta, p_data, vals, disc_ok,
                   p_failed, failed_before, info_pub, data_pub, p_fetch>>

\* Gateway::update_livedata is entered and calls update_metadata, up to its
\* loop: name() for the log line, then update_sensor_metadata().unwrap()
PollBegin ==
    /\ p_pc = "idle" /\ polls < MaxPolls
    /\ \E sent \in PollMetaResults :
          LET out == update_sensor_metadata(sent)
          IN  IF name(mac_address, debug_build).kind = "Panic" \/ out.kind # "Ok"
              THEN Abort
              ELSE /\ p_meta' = out.val
                   /\ p_pc' = "meta"
                   /\ p_data' = <<>> /\ vals' = {}
                   /\ failed_before' = failed_before \cup p_failed
                   /\ p_failed' = {} /\ info_pub' = {}
                   /\ data_pub' = NoDataPub /\ p_fetch' = "none"
                   /\ UNCHANGED <<polls, discovered_sensor, disc_ok>>
    /\ UNCHANGED sensor_config

\* one iteration of `for meta in metadata` of update_metadata; HashMap
\* iterates in any order
MetaEntry ==
    /\ p_pc = "meta"
    /\ \E e \in p_meta : \E ok \in BOOLEAN :
          LET nm == e.v.type_id_str \o <<"_info">>
              needed == ~sent_discovery(discovered_sensor, nm)
          IN  IF ~e.v.battery_state.some
              THEN /\ p_meta' = p_meta \ {e}
                   /\ UNCHANGED <<p_pc, discovered_sensor, disc_ok, p_failed, info_pub>>
              ELSE IF needed /\ PayloadPanics
              THEN /\ p_pc' = "aborted"
                   /\ UNCHANGED <<p_meta, discovered_sensor, disc_ok, p_failed, info_pub>>
              ELSE /\ p_meta' = p_meta \ {e}
                   /\ discovered_sensor' =
                         IF needed THEN send_discovery_sensor(discovered_sensor, nm, ok)
                         ELSE discovered_sensor
                   /\ disc_ok' = IF needed /\ ok THEN Append(disc_ok, nm) ELSE disc_ok
                   /\ p_failed' = IF needed /\ ~ok THEN p_failed \cup {nm} ELSE p_failed
                   \* res.is_err(): continue, the info message is not published
                   /\ info_pub' = IF needed /\ ~ok THEN info_pub ELSE info_pub \cup {nm}
                   /\ UNCHANGED p_pc
    /\ UNCHANGED <<polls, sensor_config, p_data, vals, failed_before, data_pub, p_fetch>>

\* update_metadata returned; update_livedata fetches the live data
LiveFetch ==
    /\ p_pc = "meta" /\ p_meta = {}
    /\ \E sent \in PollLiveResults :
          LET out == get_live_data(sent)
          IN  CASE out.kind = "Panic" ->
                     /\ p_pc' = "aborted"
                     /\ UNCHANGED <<polls, p_data, p_fetch>>
                [] out.kind = "Err" ->
                     \* log::error!, return
                     /\ p_fetch' = "Err" /\ p_pc' = "idle" /\ polls' = polls + 1
                     /\ UNCHANGED p_data
                [] OTHER ->
                     /\ p_fetch' = "Ok" /\ p_pc' = "live"
                     /\ p_data' = Flatten(out.val)
                     /\ UNCHANGED polls
    /\ UNCHANGED <<sensor_config, discovered_sensor, p_meta, vals, disc_ok,
                   p_failed, failed_before, info_pub, data_pub>>

\* one iteration of `for sensor in sensors` of update_livedata
LiveSensor ==
    /\ p_pc = "live" /\ p_data # <<>>
    /\ \E ok \in BOOLEAN :
          LET sensor == Head(p_data)
              nm == <<sensor.field>>
              configs == {c \in sensor_config : c.k = sensor.field}
              needed == ~sent_discovery(discovered_sensor, nm)
          IN  IF configs = {}
              THEN /\ p_data' = Tail(p_data)
                   /\ UNCHANGED <<p_pc, discovered_sensor, disc_ok, p_failed, vals>>
              ELSE IF needed /\ PayloadPanics
              THEN /\ p_pc' = "aborted"
                   /\ UNCHANGED <<p_data, discovered_sensor, disc_ok, p_failed, vals>>
              ELSE /\ p_data' = Tail(p_data)
                   /\ discovered_sensor' =
                         IF needed THEN send_discovery_sensor(discovered_sensor, nm, ok)
                         ELSE discovered_sensor
                   /\ disc_ok' = IF needed /\ ok THEN Append(disc_ok, nm) ELSE disc_ok
                   /\ p_failed' = IF needed /\ ~ok THEN p_failed \cup {nm} ELSE p_failed
                   \* res.is_err(): continue, the value is not inserted
                   /\ vals' = IF needed /\ ~ok THEN vals
                              ELSE HashMap_insert(vals,
                                       get_sensor_name(sensor.field, CHOOSE c \in configs : TRUE),
                                       sensor.value)
                   /\ UNCHANGED p_pc
    /\ UNCHANGED <<polls, sensor_config, p_meta, failed_before, info_pub, data_pub, p_fetch>>

\* the loops are over: vals is published to the data topic and the poll returns
PublishData ==
    /\ p_pc = "live" /\ p_data = <<>>
    /\ \E ok \in BOOLEAN :
          data_pub' = [tried |-> TRUE, ok |-> ok, keys |-> Keys(vals)]
    /\ p_pc' = "idle" /\ polls' = polls + 1
    /\ UNCHANGED <<sensor_config, discovered_sensor, p_meta, p_data, vals, disc_ok,
                   p_failed, failed_before, info_pub, p_fetch>>

PollNext ==
    \/ PollBegin /\ UNCHANGED <<frame_vars, send_vars, live_vars, decode_vars, meta_vars, client_vars>>
    \/ MetaEntry /\ UNCHANGED <<frame_vars, send_vars, live_vars, decode_vars, meta_vars, client_vars>>
    \/ LiveFetch /\ UNCHANGED <<frame_vars, send_vars, live_vars, decode_vars, meta_vars, client_vars>>
    \/ LiveSensor /\ UNCHANGED <<frame_vars, send_vars, live_vars, decode_vars, meta_vars, client_vars>>
    \/ PublishData /\ UNCHANGED <<frame_vars, send_vars, live_vars, decode_vars, meta_vars, client_vars>>

SpecPoll == PollInit /\ [][PollNext]_vars

(***************************************************************************)
(* Claims about the sensor inventory (checked under SpecClient)            *)
(***************************************************************************)
\* the last call was a metadata fetch that parsed the response it received
FetchParsed ==
    /\ g_op = "update_sensor_metadata"
    /\ g_resp.kind = "Ok" /\ g_out.kind = "Ok"

\* the sensor region of an inventory response and its 7-byte records, read
\* off the bytes of the response
RegionOf(resp) == SubSeq(resp, 6, resp[4] * 256 + resp[5] + 1)
RecordsOf(resp) ==
    LET region == RegionOf(resp)
    IN  [i \in 1..(Len(region) \div 7) |-> SubSeq(region, 7 * i - 6, 7 * i)]
IsUnpopulated(rec) == \A j \in 2..5 : rec[j] = 255
KeyOf(rec) == <<rec[2] * 256 + rec[3], rec[4] * 256 + rec[5]>>

\* C12: for every inventory response that update_metadata parses, no key and
\* no entry of the returned map has the address 0xFFFFFFFF, wherever the
\* unpopulated records stand, and every record with another address is
\* present in the map.
C12_UnpopulatedNeverInMap ==
    FetchParsed =>
        LET recs == RecordsOf(g_resp.data)
        IN  /\ \A e \in g_out.val :
                  e.k # <<65535, 65535>> /\ e.v.address # <<65535, 65535>>
            /\ \A i \in 1..Len(recs) :
                  ~IsUnpopulated(recs[i]) => KeyOf(recs[i]) \in Keys(g_out.val)

\* a parsed response whose first record is unpopulated and whose second is not
C12_Witness ==
    /\ FetchParsed
    /\ Len(RecordsOf(g_resp.data)) = 2
    /\ IsUnpopulated(RecordsOf(g_resp.data)[1])
    /\ ~IsUnpopulated(RecordsOf(g_resp.data)[2])
    /\ Cardinality(g_out.val) = 1
(***************************************************************************)
(* Claims about the battery classification (checked under SpecMeta)        *)
(***************************************************************************)
\* the type ids of the three battery scales, as the table lists them
BinaryIds == {0, 4} \cup 5..13
IntegerIds == 22..30 \cup {39}
VoltageIds == {1, 2, 3} \cup 14..21 \cup 31..38 \cup 40..48

\* the battery state the table gives for a type id and a raw battery byte
TableState(id, raw) ==
    IF id \in BinaryIds
    THEN (IF raw = 0 THEN "Ok" ELSE IF raw = 1 THEN "Low" ELSE "Unknown")
    ELSE IF id \in IntegerIds
    THEN (IF raw <= 1 THEN "Low"
          ELSE IF raw \in 2..5 THEN "Ok"
          ELSE IF raw = 6 THEN "Connected"
          ELSE "Unknown")
    ELSE IF id \in VoltageIds
    THEN (IF 10 * raw <= 12 THEN "Low" ELSE "Ok")
    ELSE "Unknown"

\* C13: parse_battery_state is total over (type id, raw battery byte) and
\* follows the table: binary ids {0,4,5..13}: 0 Ok, 1 Low, other Unknown;
\* integer ids {0x16..0x1E,0x27}: <=1 Low, 2..5 Ok, 6 Connected, >6 Unknown;
\* voltage ids {1,2,3,0x0E..0x15,0x1F..0x26,0x28..0x30}: <=1.2 Low, larger
\* Ok; any other id Unknown; the three id sets are pairwise disjoint.
C13_BatteryStateTable ==
    /\ BinaryIds \cap IntegerIds = {}
    /\ BinaryIds \cap VoltageIds = {}
    /\ IntegerIds \cap VoltageIds = {}
    /\ m_pc = "done" =>
          /\ m_meta.status = "Ok"
          /\ m_meta.battery_state = Some(TableState(m_type, m_batt))

\* a WH45 record (integer scale) with battery byte 6 is Connected
C13_Witness ==
    /\ m_pc = "done" /\ m_type = 39 /\ m_batt = 6
    /\ m_meta.battery_state = Some("Connected")
\* the ids with a fixed name, and the channel ranges: first id, last id,
\* name and description of the family
FixedNames ==
    { <<0, "wh65", "WH-65">>, <<1, "wh68", "WH-68">>, <<2, "wh80", "WH-80">>,
      <<3, "wh40", "WH-40">>, <<4, "wh25", "WH-25">>, <<5, "wh26", "WH-26">>,
      <<26, "wh57", "WH-57">>, <<39, "wh45", "WH-45">> }
ChannelRanges ==
    { <<6, 13, "wh31_ch", "WH-31 channel ">>, <<14, 21, "wh51_ch", "WH-51 channel ">>,
      <<22, 25, "wh41_ch", "WH-41 channel ">>, <<27, 30, "wh55_ch", "WH-55 channel ">>,
      <<31, 37, "wh34_ch", "WH-34 channel ">>, <<40, 47, "wh35_ch", "WH-35 channel ">> }

\* the name (k = 2) or the description (k = 3) the table gives to a type id
TableName(id, k) ==
    IF \E f \in FixedNames : f[1] = id
    THEN <<(CHOOSE f \in FixedNames : f[1] = id)[k]>>
    ELSE IF \E r \in ChannelRanges : id \in r[1]..r[2]
    THEN LET r == CHOOSE r \in ChannelRanges : id \in r[1]..r[2]
         IN  <<r[k + 1], id - r[1] + 1>>
    ELSE <<"unknown">>

\* C22: the ids 0..5, 0x1A and 0x27 resolve to their fixed names; in each
\* range 0x06-0x0D, 0x0E-0x15, 0x16-0x19, 0x1B-0x1E, 0x1F-0x25, 0x28-0x2F
\* the first id is channel 1 and each next id the next channel; every other
\* id resolves to the name and the description "unknown", and its record is
\* still inserted in the map the fetch returns.
C22_NameResolution ==
    /\ m_pc = "done" =>
          /\ m_meta.type_id_str = TableName(m_type, 2)
          /\ m_meta.type_desc = TableName(m_type, 3)
    /\ m_pc = "fetched" =>
          /\ m_meta.kind = "Ok"
          /\ Cardinality(m_meta.val) = 1
          /\ \A e \in m_meta.val :
                /\ e.k = <<0, 161>> /\ e.v.type_id = m_type
                /\ e.v.type_id_str = TableName(m_type, 2)
                /\ e.v.type_desc = TableName(m_type, 3)

\* the record of the type id 0x26, which has no name, is in the fetched map
C22_Witness ==
    /\ m_pc = "fetched" /\ m_type = 38
    /\ \E e \in m_meta.val : e.v.type_id_str = <<"unknown">> /\ e.v.type_desc = <<"unknown">>

(***************************************************************************)
(* Claims about the calls of the client (checked under SpecClient)         *)
(***************************************************************************)
\* C14: for every live-data response that passed validation,
\* SensorGateway::parse_live_data returns an error when the response holds
\* fewer bytes than its declared 16-bit length requires (a declared length
\* below 4 included) and otherwise parses the region; it never indexes or
\* slices past the end of the response.
C14_LiveDataLengthChecked ==
    (g_op = "get_live_data" /\ g_resp.kind = "Ok") =>
        LET resp == g_resp.data
            short == \/ Len(resp) < 5
                     \/ resp[4] * 256 + resp[5] < 4
                     \/ Len(resp) < resp[4] * 256 + resp[5] + 1
        IN  /\ g_out.kind # "Panic"
            /\ IF short THEN g_out.kind = "Err"
               ELSE g_out = Sensors_parse_live_data(
                                SubSeq(resp, 6, resp[4] * 256 + resp[5] + 1))
\* C15: for every response that passed validation for its command (of any
\* length >= 4, any declared length, any sensor region, one that is not a
\* multiple of 7 included), update_sensor_metadata, get_firmware_version and
\* get_station_mac each return a value or an error; none reads a byte beyond
\* the response.
C15_ParsersReturnValueOrError ==
    (/\ g_op \in {"update_sensor_metadata", "get_firmware_version", "get_station_mac"}
     /\ g_resp.kind = "Ok" /\ Len(g_resp.data) >= 4)
        => g_out.kind \in {"Ok", "Err"}
\* C16: SensorGateway::new against an endpoint whose every command fails
\* does not return a client; every client it returns has its firmware
\* version and its station identifier set, so that name(), version() and
\* firmware() succeed on it.
C16_ReturnedClientHasIdentity ==
    /\ g_pc = "ready" =>
          /\ \E i \in 1..Len(new_sent) : new_sent[i] = "Ok"
          /\ firmware.some /\ mac_address.some
    /\ g_op \in {"name", "version", "firmware"} => g_out.kind = "Ok"
\* the map an inventory response stands for: one entry per address other
\* than 0xFFFFFFFF, taken from the last record that has the address
MapOf(resp) ==
    LET recs == RecordsOf(resp)
        kept == {i \in 1..Len(recs) :
                    /\ ~IsUnpopulated(recs[i])
                    /\ \A j \in (i + 1)..Len(recs) : KeyOf(recs[j]) # KeyOf(recs[i])}
    IN  {[k |-> KeyOf(recs[i]),
          v |-> SensorMetadata_new(recs[i][1], KeyOf(recs[i]), Some(F64(recs[i][6])), recs[i][7])]
         : i \in kept}

\* C18: the map a metadata fetch returns is a function of the response of
\* that fetch only, whatever fetches came before: it is the map the response
\* stands for, and an address that is not in the response (one of an
\* earlier response included) is not in it; update_metadata leaves the
\* registry of the Sensors as it was built.
C18_MapFromResponseOnly ==
    /\ registry = parsers
    /\ FetchParsed =>
          /\ g_out.val = MapOf(g_resp.data)
          /\ \A a \in seen :
                (\A i \in 1..Len(RecordsOf(g_resp.data)) : KeyOf(RecordsOf(g_resp.data)[i]) # a)
                    => a \notin Keys(g_out.val)

\* a fetch on the returned client whose map is not empty and lacks an address
\* that the map of an earlier fetch had
C18_Witness ==
    /\ FetchParsed /\ g_pc = "ready" /\ Len(new_sent) = 3
    /\ g_out.val # {}
    /\ seen \ Keys(g_out.val) # {}
(***************************************************************************)
(* Claims about the retry loop (checked under SpecSend)                    *)
(***************************************************************************)
\* C19: in send_cmd a transport error and a validation failure have the same
\* effect on the retry loop: each failed attempt consumes exactly one
\* attempt, and each is followed by the retry_wait sleep before the next
\* attempt when it is not the last one.
C19_EveryFailureSleepsBeforeRetry ==
    /\ Len(outcomes) <= NumAttempts /\ NumAttempts <= Len(outcomes) + 1
    /\ \A i \in 1..(Len(events) - 1) :
          events[i] = "attempt" => events[i + 1] = "sleep"
\* position in events of the i-th attempt of the running call
AttemptPos(i) ==
    CHOOSE p \in 1..Len(events) :
        /\ events[p] = "attempt"
        /\ Cardinality({q \in 1..p : events[q] = "attempt"}) = i

\* C23: when an attempt connects and writes the request but its read fails,
\* connect_and_send_packet still closes the connection and returns an empty
\* response; the empty response fails validation, so the attempt counts as
\* failed and is followed by the retry_wait sleep when it is not the last
\* one; an empty response is never returned to the caller as a success.
C23_ReadFailureIsFailedAttempt ==
    /\ s_result.kind = "Ok" => s_result.data # <<>>
    /\ \A i \in 1..Len(outcomes) :
          outcomes[i].io = "read" =>
              /\ outcomes[i].verdict \in {"none", "CommandMismatch"}
              /\ outcomes[i].verdict = "none" =>
                    /\ i = Len(outcomes) /\ s_pc \in {"shutdown", "validate"}
                    /\ rx = <<>>
              /\ outcomes[i].verdict # "none" =>
                    /\ i < NumAttempts => events[AttemptPos(i) + 1] = "sleep"
                    /\ (i < max_tries /\ s_pc \in {"loop", "returned", "idle"}) =>
                          /\ AttemptPos(i) < Len(events)
                          /\ events[AttemptPos(i) + 1] = "sleep"
                    /\ i = max_tries => AttemptPos(i) = Len(events)
    /\ (s_pc \in {"validate", "sleep"} /\ outcomes[Len(outcomes)].io = "read") =>
          open_conns = {}

\* a call whose first read failed, which slept and then returned a validated
\* response
C23_Witness ==
    /\ s_pc = "returned" /\ s_result.kind = "Ok"
    /\ Len(outcomes) = 2 /\ outcomes[1].io = "read"
    /\ outcomes[1].verdict = "CommandMismatch"
    /\ events = <<"attempt", "sleep", "attempt">>
(***************************************************************************)
(* Termination of Sensors::parse_live_data (checked under SpecLive)        *)
(***************************************************************************)
\* the position (0-based) of the registered record whose declared size runs
\* past the end of the buffer, walking from i by 1 + size; -1 when the walk
\* ends otherwise
RECURSIVE CutAt(_, _)
CutAt(buf, i) ==
    IF ~(i < Len(buf)) THEN -1
    ELSE IF buf[i + 1] \notin DOMAIN parsers THEN -1
    ELSE IF i + 1 + parsers[buf[i + 1]].size > Len(buf) THEN i
    ELSE CutAt(buf, i + 1 + parsers[buf[i + 1]].size)

\* C25: Sensors::parse_live_data terminates on every finite buffer: every
\* iteration that does not return moves the cursor forward from a position
\* inside the buffer, and the loop can always take its next step; when the
\* last record's declared size runs past the end of the buffer the result is
\* Ok with the groups decoded before that record, and no access is out of
\* bounds.
C25_LiveParseTerminates ==
    /\ last_index < index
    /\ last_index < Len(data)
    /\ l_pc = "loop" => ENABLED (LiveRecord \/ LiveUnknown \/ LiveReturn)
    /\ l_result.kind # "Panic"
    /\ (l_pc = "done" /\ CutAt(data, 0) >= 0) =>
          /\ index > Len(data) /\ last_index = CutAt(data, 0)
          /\ l_result.kind = "Ok"
          /\ l_result.groups = sensor_data
          /\ l_result.groups = Sensors_parse_live_data(Slice(data, 0, last_index)).val

\* C25 witness: a record is decoded and the next one is cut short by the end
\* of the buffer
C25_Witness ==
    /\ l_pc = "done" /\ index > Len(data)
    /\ last_index > 0 /\ Len(l_result.groups) = 1

(***************************************************************************)
(* Records with one address (checked under SpecClient)                     *)
(***************************************************************************)
\* the position of the last record that has the address a
LastWith(recs, a) ==
    CHOOSE i \in 1..Len(recs) :
        /\ KeyOf(recs[i]) = a
        /\ \A j \in (i + 1)..Len(recs) : KeyOf(recs[j]) # a

\* C26: when an inventory response holds several populated records with the
\* same address, the map update_metadata returns holds exactly one entry for
\* that address, with the type id, battery byte and signal of the last such
\* record; the size of the map is the number of distinct populated addresses.
C26_LastRecordWins ==
    FetchParsed =>
        LET recs == RecordsOf(g_resp.data)
            addrs == {KeyOf(recs[i]) : i \in {j \in 1..Len(recs) : ~IsUnpopulated(recs[j])}}
        IN  /\ Cardinality(g_out.val) = Cardinality(addrs)
            /\ \A a \in addrs :
                  LET last == recs[LastWith(recs, a)]
                      entries == {e \in g_out.val : e.k = a}
                  IN  /\ Cardinality(entries) = 1
                      /\ \A e \in entries :
                            /\ e.v.type_id = last[1]
                            /\ e.v.address = a
                            /\ e.v.battery_level = Some(F64(last[6]))
                            /\ e.v.signal = last[7]

\* C26 witness: two populated records with one address and different type
\* ids; the map has the single entry of the second
C26_Witness ==
    /\ FetchParsed
    /\ Len(RecordsOf(g_resp.data)) = 2
    /\ KeyOf(RecordsOf(g_resp.data)[1]) = KeyOf(RecordsOf(g_resp.data)[2])
    /\ RecordsOf(g_resp.data)[1][1] # RecordsOf(g_resp.data)[2][1]
    /\ Cardinality(g_out.val) = 1
    /\ \A e \in g_out.val : e.v.type_id = RecordsOf(g_resp.data)[2][1]

(***************************************************************************)
(* Claims about the polls of a Gateway (checked under SpecPoll)            *)
(***************************************************************************)
\* the key of `vals` under which the reading named nm is sent
DataKeys(nm) == {get_sensor_name(c.k, c) : c \in {d \in sensor_config : <<d.k>> = nm}}

C28_PollNeverAborts ==
    /\ p_pc # "aborted"
    /\ p_fetch = "Err" => ~data_pub.tried

====
